---- MODULE Spec2Model ----
(***************************************************************************)
(* Model of the online image pipeline of gotkit: the URL fetcher of        *)
(* gtkutil/imgutil (http.go), the temporary-file protocol and the          *)
(* age-based garbage collector of internal/cachegc (gc.go), and the        *)
(* main-loop handoff of the image providers (imgutil.go, provider.go,      *)
(* ffmpeg.go).                                                             *)
(*                                                                         *)
(* Every goroutine that runs fetchImage is a process of Procs; its program *)
(* counter pc[p] names the source line it is about to execute.  Steps that *)
(* touch no shared variable are folded into the next step that does.  Time *)
(* is a clock in whole seconds, the resolution time.Now().Unix() keeps.    *)
(***************************************************************************)
EXTENDS Integers, FiniteSets, Sequences, TLC

\* ---------------------------------------------------------------- bounds

\* Goroutines calling fetchImage, URL keys, response bodies the server serves.
Procs == {"p1", "p2", "p3"}
Keys == {"k1", "k2"}
Bodies == {"b1", "b2"}

\* The goroutines of the specifications with two of them.
Pair == {"p1", "p2"}

\* Number of chunks io.Copy moves for one response body.
BodyLen == 1

\* Capacity of the semaphore `parallel` (GOMAXPROCS * parallelMult in the
\* source, scaled down).
MaxParallel == 2

\* time.Hour, the negative-cache TTL, scaled down to seconds of the clock.
Hour == 1

\* Last second of the clock.
MaxClock == 2

\* gcPeriod (gc.go:12), ten minutes, scaled down to seconds of the clock.
GcPeriod == 2

\* Callers of cachegc.Do, entries of the directory, the ages they pass.
GcProcs == {"g1", "g2"}
Files == {"f1", "f2"}
MaxAge == 2
Ages == 1 .. MaxAge

\* Goroutines of deletion passes the model has room for.
MaxPasses == 2
PassIds == 1 .. MaxPasses

\* Requests to the providers; the providers; the ImageSetters of the callers.
Requests == {"r1", "r2"}
ProviderKinds == {"http", "file", "ffmpeg"}
ImageSetters == {{"pixbuf"}, {"paintable"}, {"animation", "pixbuf"}}

\* The URL schemes of the requests; no provider declares "data".
Schemes == {"http", "https", "file", "data"}

\* The providers a registry is built from: HTTPProvider, FileProvider,
\* FFmpegProvider, and an FFmpegOpts with AllowFile set.
RegistryKinds == {"http", "file", "ffmpeg", "ffmpegFile"}

\* Most providers in one NewProviders call.
MaxProviders == 3

\* Capacity of the semaphore ffmpegSema (GOMAXPROCS in the source, scaled
\* down).
FFmpegParallel == 1

\* scaler.go:13
maxScale == 3

\* Largest width and height of a source pixbuf, and of a size request.
MaxSrc == 4
MaxDst == 2

\* Largest argument of a MaxSize call.
MaxDim == 4

\* base.go:22
MaxFPS == 50

\* Frames of an animation, and timers of the main loop the model has room for.
MaxFrames == 2
MaxTimers == 3

\* ------------------------------------------------------------ vocabulary

\* sync.Mutex objects allocated by fetchURL; 0 is "no mutex".
MutexIds == 1 .. Cardinality(Procs)

NoEntry == -1
NoFile == <<>>

\* cachegc.cacheError values (gc.go:121, 126, 136).
CacheErrors == {"cacheMkdir", "cacheMktemp", "cacheRename"}

VARIABLES
    clock,          \* time.Now(), in seconds
    invalidURLs,    \* http.go:42  key -> Unix second of the 4xx, or NoEntry
    fetchingURLs,   \* http.go:38  key -> mutex id, 0 when the key is absent
    locked,         \* the mutexes that are locked
    cache,          \* file at urlPath(cacheDir, key): <<body, chunks>> or NoFile
    pc,             \* per goroutine: the line it is at
    url,            \* per goroutine: the key of its call
    urlMut,         \* per goroutine: the mutex fetchURL took from fetchingURLs
    ctxDone,        \* per goroutine: its context is cancelled
    held,           \* per goroutine: it holds a permit of `parallel`
    tmp,            \* per goroutine: its temporary file, <<body, chunks>> or NoFile
    err,            \* per goroutine: the error fetchURL returns
    ret,            \* the fetchImage call that returned in the last step, or NoRet
    startedFresh,   \* per goroutine: the call started within Hour of a 404 of its key
    startedCached,  \* per goroutine: the call started with the key cached and unlocked
    lastNotFound,   \* key -> second of the last 4xx received, or NoEntry
    keyReturned,    \* key -> some fetchImage call for it has returned
    inWave,         \* per goroutine: its call started before any call for the key returned
    waveSent,       \* key -> HTTP requests sent by calls of the first wave (capped at 2)
    waveFailed,     \* key -> fetchURL has failed in some call of the first wave
    waveFirst       \* key -> outcome of the first call of the first wave to return

fetchVars == <<clock, invalidURLs, fetchingURLs, locked, cache, pc, url, urlMut,
               ctxDone, held, tmp, err, ret, startedFresh, startedCached,
               lastNotFound, keyReturned, inWave, waveSent, waveFailed,
               waveFirst>>

\* The fetcher's variables but the clock.
callVars == <<invalidURLs, fetchingURLs, locked, cache, pc, url, urlMut, ctxDone,
              held, tmp, err, ret, startedFresh, startedCached, lastNotFound,
              keyReturned, inWave, waveSent, waveFailed, waveFirst>>

VARIABLES
    gcPc,           \* per caller of cachegc.Do: the line it is at
    gcNow,          \* per caller: `now` of gc.go:43
    gcAge,          \* per caller: the parameter age
    lastRun,        \* gc.go:37  c.lastRun
    running,        \* gc.go:38  c.running
    pass,           \* the goroutines of gc.go:56, one record each
    dir,            \* the directory: file -> modification time, or NoEntry
    lastStart       \* second at which the last pass was started, or NoEntry

gcVars == <<gcPc, gcNow, gcAge, lastRun, running, pass, dir, lastStart>>

VARIABLES
    hoPc,           \* per request: where its provider is
    hoProv,         \* per request: the provider that serves it
    hoImg,          \* per request: the setters of its ImageSetter that are not nil
    hoAnim,         \* per request: the loaded image is an animation
    hoCtx,          \* per request: its context is cancelled
    hoSet,          \* per request: the setter that was invoked, or "none"
    hoErr           \* per request: its error sink was invoked

hoVars == <<hoPc, hoProv, hoImg, hoAnim, hoCtx, hoSet, hoErr>>

VARIABLES
    providers,      \* provider.go:83  the arguments of the last NewProviders call
    registry,       \* provider.go:77  the Providers map: scheme -> index in providers, 0 when absent
    hoScheme        \* per request: url.Scheme of its Providers.Do call

regVars == <<providers, registry, hoScheme>>

VARIABLES
    ffmpegInPath,   \* exec.LookPath finds the ffmpeg tool
    ffmpegOnce,     \* ffmpeg.go:85  ffmpegOnce has run
    hasFFmpeg,      \* ffmpeg.go:84
    lookups,        \* exec.LookPath("ffmpeg") calls of the process (capped at 2)
    thumb,          \* the thumbnail file of the URL is in the cache
    hoPath          \* per request: the path FFmpegThumbnail returned

ffVars == <<ffmpegInPath, ffmpegOnce, hasFFmpeg, lookups, thumb, hoPath>>

VARIABLES
    scSrc,          \* scaler.go:26  p.src
    scales,         \* scaler.go:24  p.scales, indexed from 1
    parentSz,       \* scaler.go:22  p.parentSz
    scSize,         \* the size request of the parent widget
    scScale,        \* the scale factor of the parent widget
    shown,          \* the pixbuf the parent widget was given last
    scOp,           \* the method of the scaler that ran last
    scSet,          \* that method has called the setter of the parent
    rescaled        \* that method has called ScaleSimple

scVars == <<scSrc, scales, parentSz, scSize, scScale, shown, scOp, scSet, rescaled>>

VARIABLES
    msIn,           \* the arguments <<w, h, maxW, maxH>> of the last MaxSize call
    msOut           \* what that call returned

msVars == <<msIn, msOut>>

VARIABLES
    anEnabled,      \* base.go:36  b.animation is not nil
    anPixbuf,       \* base.go:44  b.animation.pixbuf is not nil
    anPaused,       \* base.go:46  b.animation.paused
    animating,      \* base.go:45  b.animation.animating, 0 for no handle
    timers,         \* the timeout sources of the main loop: id -> its delay and the frame of its iterator
    anDelay,        \* the animation: frame -> the delay it declares, in ms
    anScale,        \* the widget has a scale factor (it is allocated)
    anSrc,          \* the pixbuf the scaler of the widget holds
    anShown,        \* what the widget shows, and who has set it
    anIter,         \* the frame of the iterator scheduleNext has read last, 0 for none
    anWasActive,    \* history: the last pause has stopped a playback that was active
    anOp            \* the method of the widget that ran last, and its branch

anVars == <<anEnabled, anPixbuf, anPaused, animating, timers, anDelay, anScale,
            anSrc, anShown, anIter, anWasActive, anOp>>

\* The registry, the FFmpeg tool, MaxSize, the scaler and the animation.
uiVars == <<regVars, ffVars, scVars, msVars, anVars>>

VARIABLES
    snkPc,          \* the request: "none", "ctx" (WithOpts has run), "fetch", "returned"
    snkOpts,        \* imgutil.go:123  setFn of the Opts variable of WithOpts, which the done closure holds
    snkDone,        \* imgutil.go:125  the done option of the Opts value in the context
    snkGet,         \* imgutil.go:274  o of get: its setFn and its done
    snkAsync,       \* imgutil.go:273  async
    snkThread,      \* the thread on which fetchImage runs
    snkCtx,         \* the context of the request is cancelled
    snkErr,         \* imgutil.go:288  the error handed to onDone
    snkIdle,        \* the callbacks handed to glib.IdleAdd that have not run
    snkCalls,       \* the setters and callbacks invoked, each with its thread
    snkShown        \* what the widget of the request shows

snkVars == <<snkPc, snkOpts, snkDone, snkGet, snkAsync, snkThread, snkCtx, snkErr,
             snkIdle, snkCalls, snkShown>>

VARIABLES
    sndClock,           \* time.Now(), in units of 100 ms
    sndPc,              \* where each goroutine of play is
    sndId,              \* sounds.go:46  id of each goroutine
    sndNow,             \* sounds.go:47  now of each goroutine
    soundsLastPlayed    \* sounds.go:31  the time stored for each id, NeverPlayed without one

sndVars == <<sndClock, sndPc, sndId, sndNow, soundsLastPlayed>>

VARIABLES
    mut,            \* state.go:22  s.mut: the thread that locked it, "none" when unlocked
    loaded,         \* state.go:24  s.loaded
    state,          \* state.go:23  the keys of s.state
    stPc,           \* where each calling thread is: "idle" or inside the loop of Each
    stRest,         \* state.go:69  the keys the loop of Each of the thread has not visited
    stLoaders,      \* state.go:109 per key, the goroutines of GetAsync that have not run
    stIdle,         \* the done callbacks handed to glib.IdleAdd that have not run
    stCalls         \* the done callbacks invoked: <<key, thread>>

stVars == <<mut, loaded, state, stPc, stRest, stLoaders, stIdle, stCalls>>

\* The options of a request with their callbacks, the sounds, and the State.
appVars == <<snkVars, sndVars, stVars>>

vars == <<fetchVars, gcVars, hoVars, uiVars, appVars>>

\* Outcomes of a call: <<"ok", body, chunks>> or <<"err", error, 0>>.
NoResult == <<"none", "none", 0>>
Ok(file) == <<"ok", file[1], file[2]>>
Failed(e) == <<"err", e, 0>>

\* errURLNotFound, http.go:45
ErrNotFound == Failed("notFound")

NoRet == [key |-> "none", out |-> NoResult, fresh |-> FALSE, cached |-> FALSE,
          wave |-> FALSE, first |-> NoResult, sent |-> 0, failed |-> FALSE]

\* ------------------------------------------------------- negative cache

\* http.go:55-59: the entry vt is younger than one hour.
EntryFresh(vt) == vt + Hour > clock

\* A markURLInvalid that stores nothing.
markURLInvalidNever(k) == invalidURLs

\* http.go:65-67
markURLInvalid(k) == [invalidURLs EXCEPT![k] = clock]

\* A WithTmpFile that does not look for the destination file.
IsFileNever(k) == FALSE

\* cachegc.IsFile, gc.go:78-84
IsFile(k) == cache[k] # NoFile

\* cachegc.IsCacheError, gc.go:100-103
IsCacheError(e) == e \in CacheErrors

\* ------------------------------------------------------------- helpers

\* Permits of `parallel` that are taken.
Permits == Cardinality({p \in Procs : held[p]})

\* A mutex id no goroutine and no table entry refers to (&sync.Mutex{}).
FreshMutex ==
    CHOOSE m \in MutexIds :
        /\ \A p \in Procs : urlMut[p] # m
        /\ \A k \in Keys : fetchingURLs[k] # m

Min(a, b) == IF a < b THEN a ELSE b

\* fetchImage returns to get (imgutil.go:283-288): the call of p for key k
\* ends with outcome r; p is ready for its next call.
ReturnAs(p, k, r, fresh, cached, wave) ==
    /\ pc' = [pc EXCEPT![p] = "idle"]
    /\ ret' = [key |-> k, out |-> r, fresh |-> fresh, cached |-> cached,
               wave |-> wave,
               first |-> IF wave THEN waveFirst[k] ELSE NoResult,
               sent |-> IF wave THEN waveSent[k] ELSE 0,
               failed |-> wave /\ waveFailed[k]]
    /\ IF wave /\ \A q \in Procs \ {p} : ~(inWave[q] /\ url[q] = k)
          THEN \* the last call of the first wave: its account is closed
               /\ waveFirst' = [waveFirst EXCEPT![k] = NoResult]
               /\ waveSent' = [waveSent EXCEPT![k] = 0]
               /\ waveFailed' = [waveFailed EXCEPT![k] = FALSE]
          ELSE /\ waveFirst' = IF wave /\ waveFirst[k] = NoResult
                                  THEN [waveFirst EXCEPT![k] = r]
                                  ELSE waveFirst
               /\ UNCHANGED <<waveSent, waveFailed>>
    /\ keyReturned' = [keyReturned EXCEPT![k] = TRUE]
    /\ url' = [url EXCEPT![p] = "k1"]
    /\ startedFresh' = [startedFresh EXCEPT![p] = FALSE]
    /\ startedCached' = [startedCached EXCEPT![p] = FALSE]
    /\ inWave' = [inWave EXCEPT![p] = FALSE]
    /\ ctxDone' = [ctxDone EXCEPT![p] = FALSE]
    /\ err' = [err EXCEPT![p] = "none"]
    /\ UNCHANGED <<gcVars, hoVars, uiVars, appVars>>

Return(p, r) ==
    ReturnAs(p, url[p], r, startedFresh[p], startedCached[p], inWave[p])

\* The call of p goes on.
Keep ==
    /\ ret' = NoRet
    /\ UNCHANGED <<url, startedFresh, startedCached, inWave, keyReturned,
                   waveFirst, ctxDone>>
    /\ UNCHANGED <<gcVars, hoVars, uiVars, appVars>>

\* p sends one HTTP request (client.Do, http.go:183).
CountSent(p) ==
    waveSent' = IF inWave[p]
                   THEN [waveSent EXCEPT![url[p]] = Min(@ + 1, 2)]
                   ELSE waveSent

\* ------------------------------------------------------------ fetchImage

\* imgutil.go:282-292 and http.go:70-76: a goroutine starts
\* fetchImage(ctx, k, img, o) and runs urlIsInvalid (lines 48-59): the Load
\* of the entry and the test of its age.  An expired entry is deleted by a
\* later step (line 61).
Start(p, k) ==
    /\ pc[p] = "idle"
    /\ LET vt == invalidURLs[k]
           fresh == lastNotFound[k] # NoEntry /\ clock < lastNotFound[k] + Hour
           cached == cache[k] # NoFile /\ fetchingURLs[k] = 0
           wave == ~keyReturned[k]
       IN  IF vt # NoEntry /\ EntryFresh(vt)
              THEN ReturnAs(p, k, ErrNotFound, fresh, cached, wave)
              ELSE /\ pc' = [pc EXCEPT![p] = IF vt = NoEntry THEN "fiLoad" ELSE "fi74del"]
                   /\ url' = [url EXCEPT![p] = k]
                   /\ startedFresh' = [startedFresh EXCEPT![p] = fresh]
                   /\ startedCached' = [startedCached EXCEPT![p] = cached]
                   /\ inWave' = [inWave EXCEPT![p] = wave]
                   /\ ret' = NoRet
                   /\ UNCHANGED <<keyReturned, waveFirst, waveSent, waveFailed,
                                  ctxDone, err, gcVars, hoVars, uiVars, appVars>>
    /\ UNCHANGED <<clock, invalidURLs, fetchingURLs, locked, cache, urlMut, held,
                   tmp, lastNotFound>>

\* http.go:61-62 reached from line 74: invalidURLs.Delete(h); return false.
fi74del(p) ==
    /\ pc[p] = "fi74del"
    /\ invalidURLs' = [invalidURLs EXCEPT![url[p]] = NoEntry]
    /\ pc' = [pc EXCEPT![p] = "fiLoad"]
    /\ Keep
    /\ UNCHANGED <<clock, fetchingURLs, locked, cache, urlMut, held, tmp, err,
                   lastNotFound, waveSent, waveFailed>>

\* http.go:78-88: loadPixbufFromFile(cacheDst); a file that is there ends the
\* call, otherwise fetchURL is entered.  (cachegc.Do of line 82 is the
\* operation Do below; a file written within MaxClock is younger than CacheAge.)
fiLoad(p) ==
    /\ pc[p] = "fiLoad"
    /\ IF cache[url[p]] # NoFile
          THEN Return(p, Ok(cache[url[p]]))
          ELSE /\ pc' = [pc EXCEPT![p] = "fuTable"]
               /\ Keep
               /\ UNCHANGED <<err, waveSent, waveFailed>>
    /\ UNCHANGED <<clock, invalidURLs, fetchingURLs, locked, cache, urlMut, held,
                   tmp, lastNotFound>>

\* -------------------------------------------------------------- fetchURL

\* http.go:119-125: under fetchingMu, take the key's mutex or create it.
fuTable(p) ==
    /\ pc[p] = "fuTable"
    /\ LET k == url[p] IN
         IF fetchingURLs[k] # 0
            THEN /\ urlMut' = [urlMut EXCEPT![p] = fetchingURLs[k]]
                 /\ UNCHANGED fetchingURLs
            ELSE /\ urlMut' = [urlMut EXCEPT![p] = FreshMutex]
                 /\ fetchingURLs' = [fetchingURLs EXCEPT![k] = FreshMutex]
    /\ pc' = [pc EXCEPT![p] = "fuLock"]
    /\ Keep
    /\ UNCHANGED <<clock, invalidURLs, locked, cache, held, tmp, err, lastNotFound,
                   waveSent, waveFailed>>

\* http.go:133: urlMut.Lock() blocks while the mutex is locked.
fuLock(p) ==
    /\ pc[p] = "fuLock"
    /\ urlMut[p] \notin locked
    /\ locked' = locked \cup {urlMut[p]}
    /\ pc' = [pc EXCEPT![p] = "fu137"]
    /\ Keep
    /\ UNCHANGED <<clock, invalidURLs, fetchingURLs, cache, urlMut, held, tmp, err,
                   lastNotFound, waveSent, waveFailed>>

\* A return of fetchURL that leaves the mutex of the key locked.
LeaveLocked(p, e) ==
    /\ err' = [err EXCEPT![p] = e]
    /\ held' = [held EXCEPT![p] = FALSE]
    /\ UNCHANGED locked
    /\ pc' = [pc EXCEPT![p] = "fuDelete"]
    /\ waveFailed' = IF inWave[p] /\ e # "none"
                        THEN [waveFailed EXCEPT![url[p]] = TRUE]
                        ELSE waveFailed

\* http.go:146 and 134, deferred: fetchURL returns e; parallel.Release(1)
\* runs when the permit was taken, then urlMut.Unlock().  The deferred delete
\* of lines 127-131 is the step fuDelete.
Leave(p, e) ==
    /\ err' = [err EXCEPT![p] = e]
    /\ held' = [held EXCEPT![p] = FALSE]
    /\ locked' = locked \ {urlMut[p]}
    /\ pc' = [pc EXCEPT![p] = "fuDelete"]
    /\ waveFailed' = IF inWave[p] /\ e # "none"
                        THEN [waveFailed EXCEPT![url[p]] = TRUE]
                        ELSE waveFailed

\* http.go:137-139: the recheck of the negative cache with the mutex held.
fu137(p) ==
    /\ pc[p] = "fu137"
    /\ LET vt == invalidURLs[url[p]] IN
         IF vt = NoEntry
            THEN /\ pc' = [pc EXCEPT![p] = "fuAcq"]
                 /\ UNCHANGED <<err, held, locked, waveFailed>>
            ELSE IF EntryFresh(vt)
                    THEN Leave(p, "notFound")
                    ELSE /\ pc' = [pc EXCEPT![p] = "fu137del"]
                         /\ UNCHANGED <<err, held, locked, waveFailed>>
    /\ Keep
    /\ UNCHANGED <<clock, invalidURLs, fetchingURLs, cache, urlMut, tmp,
                   lastNotFound, waveSent>>

\* http.go:61-62 reached from line 137.
fu137del(p) ==
    /\ pc[p] = "fu137del"
    /\ invalidURLs' = [invalidURLs EXCEPT![url[p]] = NoEntry]
    /\ pc' = [pc EXCEPT![p] = "fuAcq"]
    /\ Keep
    /\ UNCHANGED <<clock, fetchingURLs, locked, cache, urlMut, held, tmp, err,
                   lastNotFound, waveSent, waveFailed>>

\* http.go:143-146: parallel.Acquire(ctx, 1).  A free permit is taken at once
\* (x/sync of go.mod takes it also when ctx is done); without a free permit
\* the call blocks, and fails when its context is cancelled.
fuAcq(p) ==
    /\ pc[p] = "fuAcq"
    /\ IF Permits < MaxParallel
          THEN /\ held' = [held EXCEPT![p] = TRUE]
               /\ pc' = [pc EXCEPT![p] = "fuTmp"]
               /\ UNCHANGED <<err, locked, waveFailed>>
          ELSE /\ ctxDone[p]
               /\ Leave(p, "acquire")
    /\ Keep
    /\ UNCHANGED <<clock, invalidURLs, fetchingURLs, cache, urlMut, tmp,
                   lastNotFound, waveSent>>

\* gc.go:114-131 (WithTmpFile) up to the call of fn, and http.go:162, 176-186
\* (downloadTo -> getBody) up to client.Do: nothing to do when dst is a file;
\* otherwise the temporary file is created and the request is sent.
WithTmpFile(p) ==
    /\ pc[p] = "fuTmp"
    /\ IF IsFile(url[p])
          THEN /\ Leave(p, "none")
               /\ UNCHANGED <<tmp, waveSent>>
          ELSE /\ tmp' = [tmp EXCEPT![p] = <<"none", 0>>]
               /\ pc' = [pc EXCEPT![p] = "fuResp"]
               /\ CountSent(p)
               /\ UNCHANGED <<err, held, locked, waveFailed>>
    /\ Keep
    /\ UNCHANGED <<clock, invalidURLs, fetchingURLs, cache, urlMut, lastNotFound>>

\* gc.go:120-127 (WithTmpFile): mkdir -p or mktemp fails with the cacheError e.
WithTmpFileError(p, e) ==
    /\ pc[p] = "fuTmp"
    /\ ~IsFile(url[p])
    /\ Leave(p, e)
    /\ Keep
    /\ UNCHANGED <<clock, invalidURLs, fetchingURLs, cache, urlMut, tmp,
                   lastNotFound, waveSent>>

\* WithTmpFile returns e from fn: the deferred f.Close() and
\* os.Remove(f.Name()) of gc.go:128-129 run, the temporary file of p is gone.
FailFetch(p, e) ==
    /\ tmp' = [tmp EXCEPT![p] = NoFile]
    /\ Leave(p, e)

\* http.go:183-197 (getBody): the server answers 2xx with body b.
getBody(p, b) ==
    /\ pc[p] = "fuResp"
    /\ ~ctxDone[p]
    /\ tmp' = [tmp EXCEPT![p] = <<b, 0>>]
    /\ pc' = [pc EXCEPT![p] = "fuCopy"]
    /\ Keep
    /\ UNCHANGED <<clock, invalidURLs, fetchingURLs, locked, cache, urlMut, held,
                   err, lastNotFound, waveSent, waveFailed>>

\* http.go:188-192 (getBody): the server answers 4xx; the key is marked.
getBody4xx(p) ==
    /\ pc[p] = "fuResp"
    /\ ~ctxDone[p]
    /\ FailFetch(p, "status4xx")
    /\ invalidURLs' = markURLInvalid(url[p])
    /\ lastNotFound' = [lastNotFound EXCEPT![url[p]] = clock]
    /\ Keep
    /\ UNCHANGED <<clock, fetchingURLs, cache, urlMut, waveSent>>

\* http.go:184-186 and 193-195 (getBody): the request fails (e = "transport")
\* or the server answers with another status (e = "status5xx").
getBodyError(p, e) ==
    /\ pc[p] = "fuResp"
    /\ ~ctxDone[p]
    /\ FailFetch(p, e)
    /\ Keep
    /\ UNCHANGED <<clock, invalidURLs, fetchingURLs, cache, urlMut, lastNotFound,
                   waveSent>>

\* A request that does not carry the context of the caller: the transfer of
\* a cancelled call goes on.
getBodyDetached(p) ==
    /\ pc[p] = "fuResp"
    /\ ctxDone[p]
    /\ tmp' = [tmp EXCEPT![p] = <<"b1", 0>>]
    /\ pc' = [pc EXCEPT![p] = "fuCopy"]
    /\ Keep
    /\ UNCHANGED <<clock, invalidURLs, fetchingURLs, locked, cache, urlMut, held,
                   err, lastNotFound, waveSent, waveFailed>>

\* http.go:176-186 (getBody): the request carries the context of the caller,
\* so client.Do fails once that context is cancelled.
getBodyCanceled(p) ==
    /\ pc[p] = "fuResp"
    /\ ctxDone[p]
    /\ FailFetch(p, "ctx")
    /\ Keep
    /\ UNCHANGED <<clock, invalidURLs, fetchingURLs, cache, urlMut, lastNotFound,
                   waveSent>>

\* http.go:168 (downloadTo): io.Copy moves one chunk of the body to the
\* temporary file.
downloadTo(p) ==
    /\ pc[p] = "fuCopy"
    /\ ~ctxDone[p]
    /\ tmp' = [tmp EXCEPT![p] = <<@[1], @[2] + 1>>]
    /\ pc' = [pc EXCEPT![p] = IF tmp[p][2] + 1 = BodyLen THEN "fuRename" ELSE "fuCopy"]
    /\ Keep
    /\ UNCHANGED <<clock, invalidURLs, fetchingURLs, locked, cache, urlMut, held,
                   err, lastNotFound, waveSent, waveFailed>>

\* A download that writes to the final path: what was copied stays there
\* when io.Copy fails.
downloadToFinalPath(p) ==
    /\ pc[p] = "fuCopy"
    /\ cache' = [cache EXCEPT![url[p]] = tmp[p]]
    /\ FailFetch(p, "download")
    /\ Keep
    /\ UNCHANGED <<clock, invalidURLs, fetchingURLs, urlMut, lastNotFound, waveSent>>

\* http.go:168-170 (downloadTo): io.Copy fails: the connection breaks, the
\* write fails, or the context of the request is cancelled.
downloadToError(p) ==
    /\ pc[p] = "fuCopy"
    /\ FailFetch(p, "download")
    /\ Keep
    /\ UNCHANGED <<clock, invalidURLs, fetchingURLs, cache, urlMut, lastNotFound,
                   waveSent>>

\* http.go:168-170 (downloadTo): io.Copy fails in the write to the temporary
\* file (the disk is full); downloadTo wraps the error as "cannot download".
downloadToWriteError(p) ==
    /\ pc[p] = "fuCopy"
    /\ FailFetch(p, "write")
    /\ Keep
    /\ UNCHANGED <<clock, invalidURLs, fetchingURLs, cache, urlMut, lastNotFound,
                   waveSent>>

\* gc.go:135 (WithTmpFile): os.Rename(f.Name(), dst).
Rename(p) ==
    /\ pc[p] = "fuRename"
    /\ cache' = [cache EXCEPT![url[p]] = tmp[p]]
    /\ FailFetch(p, "none")
    /\ Keep
    /\ UNCHANGED <<clock, invalidURLs, fetchingURLs, urlMut, lastNotFound, waveSent>>

\* gc.go:135-137 (WithTmpFile): os.Rename fails with a cacheError; the
\* temporary file is removed (gc.go:129).
RenameError(p) ==
    /\ pc[p] = "fuRename"
    /\ FailFetch(p, "cacheRename")
    /\ Keep
    /\ UNCHANGED <<clock, invalidURLs, fetchingURLs, cache, urlMut, lastNotFound,
                   waveSent>>

\* http.go:127-131, deferred: delete(fetchingURLs, url), whichever mutex the
\* table holds for the key.  Then fetchImage goes on at line 88: line 89 after
\* nil, the fallback of lines 94-97 after a cache error (getBody is called
\* with neither the key's mutex nor a permit of `parallel`), line 107
\* otherwise.
fuDelete(p) ==
    /\ pc[p] = "fuDelete"
    /\ fetchingURLs' = [fetchingURLs EXCEPT![url[p]] = 0]
    /\ urlMut' = [urlMut EXCEPT![p] = 0]
    /\ IF err[p] = "none"
          THEN /\ pc' = [pc EXCEPT![p] = "fiReload"]
               /\ Keep
               /\ UNCHANGED <<err, waveSent, waveFailed>>
          ELSE IF IsCacheError(err[p])
                  THEN /\ pc' = [pc EXCEPT![p] = "fbResp"]
                       /\ CountSent(p)
                       /\ Keep
                       /\ UNCHANGED <<err, waveFailed>>
                  ELSE Return(p, Failed(err[p]))
    /\ UNCHANGED <<clock, invalidURLs, locked, cache, held, tmp, lastNotFound>>

\* http.go:89: loadPixbufFromFile(cacheDst) after fetchURL returned nil.
fiReload(p) ==
    /\ pc[p] = "fiReload"
    /\ IF cache[url[p]] # NoFile
          THEN Return(p, Ok(cache[url[p]]))
          ELSE Return(p, Failed("open"))
    /\ UNCHANGED <<clock, invalidURLs, fetchingURLs, locked, cache, urlMut, held,
                   tmp, lastNotFound>>

\* ------------------------------------------- the cache-error fallback

\* http.go:97 (getBody of the fallback): the server answers 2xx with body b.
fallbackGetBody(p, b) ==
    /\ pc[p] = "fbResp"
    /\ ~ctxDone[p]
    /\ tmp' = [tmp EXCEPT![p] = <<b, 0>>]
    /\ pc' = [pc EXCEPT![p] = "fbRead"]
    /\ Keep
    /\ UNCHANGED <<clock, invalidURLs, fetchingURLs, locked, cache, urlMut, held,
                   err, lastNotFound, waveSent, waveFailed>>

\* http.go:97-100 and 188-192: the server answers 4xx to the fallback.
fallbackGetBody4xx(p) ==
    /\ pc[p] = "fbResp"
    /\ ~ctxDone[p]
    /\ Return(p, Failed("status4xx"))
    /\ invalidURLs' = markURLInvalid(url[p])
    /\ lastNotFound' = [lastNotFound EXCEPT![url[p]] = clock]
    /\ UNCHANGED <<clock, fetchingURLs, locked, cache, urlMut, held, tmp>>

\* http.go:97-100, 184-186 and 193-195: the fallback's request fails.
fallbackGetBodyError(p, e) ==
    /\ pc[p] = "fbResp"
    /\ ~ctxDone[p]
    /\ Return(p, Failed(e))
    /\ UNCHANGED <<clock, invalidURLs, fetchingURLs, locked, cache, urlMut, held,
                   tmp, lastNotFound>>

\* http.go:97-100, 176-186: the fallback's request with a cancelled context.
fallbackGetBodyCanceled(p) ==
    /\ pc[p] = "fbResp"
    /\ ctxDone[p]
    /\ Return(p, Failed("ctx"))
    /\ UNCHANGED <<clock, invalidURLs, fetchingURLs, locked, cache, urlMut, held,
                   tmp, lastNotFound>>

\* http.go:101-103, imgutil.go:415-419 (loadPixbuf): io.Copy streams one chunk
\* of the body into the PixbufLoader; tmp[p] is what the loader has received.
\* After the last chunk the call returns the image.
fallbackLoad(p) ==
    /\ pc[p] = "fbRead"
    /\ ~ctxDone[p]
    /\ IF tmp[p][2] + 1 < BodyLen
          THEN /\ tmp' = [tmp EXCEPT![p] = <<@[1], @[2] + 1>>]
               /\ Keep
               /\ UNCHANGED <<pc, err, waveSent, waveFailed>>
          ELSE /\ Return(p, Ok(<<tmp[p][1], BodyLen>>))
               /\ tmp' = [tmp EXCEPT![p] = NoFile]
    /\ UNCHANGED <<clock, invalidURLs, fetchingURLs, locked, cache, urlMut, held,
                   lastNotFound>>

\* imgutil.go:415-419 (loadPixbuf): io.Copy fails (a broken connection or a
\* cancelled context).
fallbackLoadError(p) ==
    /\ pc[p] = "fbRead"
    /\ Return(p, Failed("download"))
    /\ tmp' = [tmp EXCEPT![p] = NoFile]
    /\ UNCHANGED <<clock, invalidURLs, fetchingURLs, locked, cache, urlMut, held,
                   lastNotFound>>

\* ------------------------------------------------------- the environment

\* The lines at which a call waits with its context: http.go:143 (Acquire),
\* 183 (the request), 168 (the body), and 97, 101 (the fallback).
CtxRead == {"fuAcq", "fuResp", "fuCopy", "fbResp", "fbRead"}

\* The caller cancels the context of a running call.  A cancellation before
\* the call reads its context is the same as one right before that read.
Cancel(p) ==
    /\ pc[p] \in CtxRead
    /\ ~ctxDone[p]
    /\ ctxDone' = [ctxDone EXCEPT![p] = TRUE]
    /\ ret' = NoRet
    /\ UNCHANGED <<clock, invalidURLs, fetchingURLs, locked, cache, pc, url, urlMut,
                   held, tmp, err, startedFresh, startedCached, lastNotFound,
                   keyReturned, inWave, waveSent, waveFailed, waveFirst>>
    /\ UNCHANGED <<gcVars, hoVars, uiVars, appVars>>

\* One second passes.
Tick ==
    /\ clock < MaxClock
    /\ clock' = clock + 1
    /\ ret' = NoRet
    /\ UNCHANGED <<invalidURLs, fetchingURLs, locked, cache, pc, url, urlMut,
                   ctxDone, held, tmp, err, startedFresh, startedCached,
                   lastNotFound, keyReturned, inWave, waveSent, waveFailed, waveFirst>>
    /\ UNCHANGED <<gcVars, hoVars, uiVars, appVars>>

\* ------------------------------------------------------------- cachegc.Do

\* The zero time.Time of a new cacheGC (gc.go:26) lies more than gcPeriod
\* before every time.Now().
ZeroTime == 0 - GcPeriod

\* A goroutine slot of gc.go:56 that is free.
NoPass == [state |-> "idle", now |-> 0, age |-> 0, files |-> {}, removed |-> {}]

\* The passes that are running.
Running == {i \in PassIds : pass[i].state # "idle"}

\* A comparison that takes the entries of exactly the age for outdated.
OutdatedOrEqual(mtime, age, now) == mtime + age <= now

\* gc.go:65: s.ModTime().Add(age).Before(now)
Outdated(mtime, age, now) == mtime + age < now

\* gc.go:21-32 and 43: Do(path, age) finds the cacheGC of the directory, and
\* do reads the clock.
Do(g, age) ==
    /\ gcPc[g] = "idle"
    /\ gcPc' = [gcPc EXCEPT![g] = "do47"]
    /\ gcNow' = [gcNow EXCEPT![g] = clock]
    /\ gcAge' = [gcAge EXCEPT![g] = age]
    /\ UNCHANGED <<lastRun, running, pass, dir, lastStart>>
    /\ UNCHANGED <<fetchVars, hoVars, uiVars, appVars>>

\* gc.go:47-56: under c.mut, return when a pass is running or the last one
\* is younger than gcPeriod; otherwise mark the pass and start its goroutine.
do(g) ==
    /\ gcPc[g] = "do47"
    /\ IF running \/ lastRun + GcPeriod > gcNow[g]
          THEN UNCHANGED <<lastRun, running, pass, lastStart>>
          ELSE /\ \E i \in PassIds : pass[i].state = "idle"
               /\ LET i == CHOOSE j \in PassIds : pass[j].state = "idle" IN
                    pass' = [pass EXCEPT![i] = [state |-> "readdir", now |-> gcNow[g],
                                                age |-> gcAge[g], files |-> {},
                                                removed |-> {}]]
               /\ running' = TRUE
               /\ lastRun' = gcNow[g]
               /\ lastStart' = clock
    /\ gcPc' = [gcPc EXCEPT![g] = "idle"]
    /\ gcNow' = [gcNow EXCEPT![g] = 0]
    /\ gcAge' = [gcAge EXCEPT![g] = 0]
    /\ UNCHANGED dir
    /\ UNCHANGED <<fetchVars, hoVars, uiVars, appVars>>

\* gc.go:57: os.ReadDir(path) lists the entries of the directory.
ReadDir(i) ==
    /\ pass[i].state = "readdir"
    /\ pass' = [pass EXCEPT![i].state = "loop",
                            ![i].files = {f \in Files : dir[f] # NoEntry}]
    /\ UNCHANGED <<gcPc, gcNow, gcAge, lastRun, running, dir, lastStart>>
    /\ UNCHANGED <<fetchVars, hoVars, uiVars, appVars>>

\* gc.go:59-69: one turn of the loop: file.Info() of an entry, and os.Remove
\* when it is outdated.  An entry that is gone is skipped (line 62).
Entry(i, f) ==
    /\ pass[i].state = "loop"
    /\ f \in pass[i].files
    /\ IF dir[f] # NoEntry /\ Outdated(dir[f], pass[i].age, pass[i].now)
          THEN /\ dir' = [dir EXCEPT![f] = NoEntry]
               /\ pass' = [pass EXCEPT![i].files = @ \ {f},
                                       ![i].removed = @ \cup {f}]
          ELSE /\ pass' = [pass EXCEPT![i].files = @ \ {f}]
               /\ UNCHANGED dir
    /\ UNCHANGED <<gcPc, gcNow, gcAge, lastRun, running, lastStart>>
    /\ UNCHANGED <<fetchVars, hoVars, uiVars, appVars>>

\* gc.go:71-73: the pass is over.
Finish(i) ==
    /\ pass[i].state = "loop"
    /\ pass[i].files = {}
    /\ running' = FALSE
    /\ pass' = [pass EXCEPT![i] = NoPass]
    /\ UNCHANGED <<gcPc, gcNow, gcAge, lastRun, dir, lastStart>>
    /\ UNCHANGED <<fetchVars, hoVars, uiVars, appVars>>

\* gc.go:135: a file comes into the directory (the rename of WithTmpFile);
\* its modification time is the time of its last write.
CreateFile(f) ==
    /\ dir[f] = NoEntry
    /\ dir' = [dir EXCEPT![f] = clock]
    /\ UNCHANGED <<gcPc, gcNow, gcAge, lastRun, running, pass, lastStart>>
    /\ UNCHANGED <<fetchVars, hoVars, uiVars, appVars>>

\* ---------------------------------------------------- the main-loop handoff

\* The first setter of the ImageSetter img that loadPixbuf and
\* loadPixbufFromFile find (imgutil.go:333-348 and 449-464).
PickSetter(img, anim) ==
    IF "animation" \in img /\ anim THEN "animation"
    ELSE IF "pixbuf" \in img THEN "pixbuf"
    ELSE IF "paintable" \in img THEN "paintable"
    ELSE "none"

\* The setter FFmpegOpts.Do finds (ffmpeg.go:73-78).
PickThumbnailSetter(img) ==
    IF "pixbuf" \in img THEN "pixbuf"
    ELSE IF "paintable" \in img THEN "paintable"
    ELSE "none"

\* provider.go:143, ffmpeg.go:44, imgutil.go:282: the goroutine of the
\* provider prov is started for request r, whose context is live and whose
\* sink and setters are untouched.
GoProvider(r, prov, img) ==
    /\ hoPc' = [hoPc EXCEPT![r] = "bg"]
    /\ hoProv' = [hoProv EXCEPT![r] = prov]
    /\ hoImg' = [hoImg EXCEPT![r] = img]
    /\ hoAnim' = [hoAnim EXCEPT![r] = FALSE]
    /\ hoCtx' = [hoCtx EXCEPT![r] = FALSE]
    /\ hoSet' = [hoSet EXCEPT![r] = "none"]
    /\ hoErr' = [hoErr EXCEPT![r] = FALSE]

\* provider.go:124-126, 142-149, ffmpeg.go:43-44: the provider prov starts
\* its goroutine for request r with the ImageSetter img.
ProviderDo(r, prov, img) ==
    /\ hoPc[r] = "idle"
    /\ GoProvider(r, prov, img)
    /\ UNCHANGED <<fetchVars, gcVars, uiVars, appVars>>

\* imgutil.go:319 and 425, ffmpeg.go:66: the goroutine has the image and
\* hands the callback to the main loop with glib.IdleAdd.  A thumbnail of
\* FFmpeg is a still image.
Loaded(r, anim) ==
    /\ hoPc[r] = "bg"
    /\ hoProv[r] = "ffmpeg" => ~anim
    /\ hoPc' = [hoPc EXCEPT![r] = "queued"]
    /\ hoAnim' = [hoAnim EXCEPT![r] = anim]
    /\ UNCHANGED <<hoProv, hoImg, hoCtx, hoSet, hoErr>>
    /\ UNCHANGED <<fetchVars, gcVars, uiVars, appVars>>

\* imgutil.go:283-288, 145-147, ffmpeg.go:55-63: the goroutine fails and
\* reports to the error sink.
LoadFailed(r) ==
    /\ hoPc[r] = "bg"
    /\ hoPc' = [hoPc EXCEPT![r] = "done"]
    /\ hoErr' = [hoErr EXCEPT![r] = TRUE]
    /\ UNCHANGED <<hoProv, hoImg, hoAnim, hoCtx, hoSet>>
    /\ UNCHANGED <<fetchVars, gcVars, uiVars, appVars>>

\* imgutil.go:319-351 and 425-470: the callback of the HTTP and the file
\* provider runs on the main loop: it returns when the context is done,
\* otherwise it invokes the first setter there is.
Callback(r) ==
    /\ hoPc[r] = "queued"
    /\ hoProv[r] \in {"http", "file"}
    /\ hoPc' = [hoPc EXCEPT![r] = "done"]
    /\ hoSet' = [hoSet EXCEPT![r] =
                   IF hoCtx[r] THEN "none" ELSE PickSetter(hoImg[r], hoAnim[r])]
    /\ UNCHANGED <<hoProv, hoImg, hoAnim, hoCtx, hoErr>>
    /\ UNCHANGED <<fetchVars, gcVars, uiVars, appVars>>

\* ffmpeg.go:66-79: the callback of the FFmpeg provider runs on the main
\* loop: it reports a context that is done to the error sink, and goes on to
\* the switch of the setters.
FFmpegCallback(r) ==
    /\ hoPc[r] = "queued"
    /\ hoProv[r] = "ffmpeg"
    /\ hoPc' = [hoPc EXCEPT![r] = "done"]
    /\ hoErr' = [hoErr EXCEPT![r] = hoCtx[r]]
    /\ hoSet' = [hoSet EXCEPT![r] = PickThumbnailSetter(hoImg[r])]
    /\ UNCHANGED <<hoProv, hoImg, hoAnim, hoCtx>>
    /\ UNCHANGED <<fetchVars, gcVars, uiVars, appVars>>

\* The caller cancels the context of a request whose callback has not run.
CancelRequest(r) ==
    /\ hoPc[r] \in {"bg", "queued"}
    /\ ~hoCtx[r]
    /\ hoCtx' = [hoCtx EXCEPT![r] = TRUE]
    /\ UNCHANGED <<hoPc, hoProv, hoImg, hoAnim, hoSet, hoErr>>
    /\ UNCHANGED <<fetchVars, gcVars, uiVars, appVars>>

\* The request is over; its slot is free for the next one.
Forget(r) ==
    /\ hoPc[r] = "done"
    /\ hoPc' = [hoPc EXCEPT![r] = "idle"]
    /\ hoProv' = [hoProv EXCEPT![r] = "http"]
    /\ hoImg' = [hoImg EXCEPT![r] = {}]
    /\ hoAnim' = [hoAnim EXCEPT![r] = FALSE]
    /\ hoCtx' = [hoCtx EXCEPT![r] = FALSE]
    /\ hoSet' = [hoSet EXCEPT![r] = "none"]
    /\ hoErr' = [hoErr EXCEPT![r] = FALSE]
    /\ UNCHANGED <<fetchVars, gcVars, uiVars, appVars>>

\* ------------------------------------------------------------ the registry

\* Provider.Schemes of the providers: provider.go:122-124, 137-139 and
\* ffmpeg.go:35-40.
ProviderSchemes(kind) ==
    CASE kind = "http" -> <<"http", "https">>
      [] kind = "file" -> <<"file">>
      [] kind = "ffmpeg" -> <<"http", "https">>
      [] kind = "ffmpegFile" -> <<"http", "https", "file">>

\* The Do method a provider of the kind has: FFmpegOpts.Do whatever AllowFile.
ProviderImpl(kind) == IF kind = "ffmpegFile" THEN "ffmpeg" ELSE kind

\* A registry in which the first provider declaring a scheme keeps it.
RECURSIVE RangeSchemesKeepFirst(_, _, _)
RangeSchemesKeepFirst(m, schemes, i) ==
    IF schemes = <<>>
       THEN m
       ELSE RangeSchemesKeepFirst(
                IF m[Head(schemes)] = 0 THEN [m EXCEPT![Head(schemes)] = i] ELSE m,
                Tail(schemes), i)

\* provider.go:86-88: the inner loop, m[scheme] = prov for every scheme of
\* the provider with index i.
RECURSIVE RangeSchemes(_, _, _)
RangeSchemes(m, schemes, i) ==
    IF schemes = <<>>
       THEN m
       ELSE RangeSchemes([m EXCEPT![Head(schemes)] = i], Tail(schemes), i)

\* provider.go:85-89: the outer loop over the providers, from index i on.
RECURSIVE RangeProviders(_, _, _)
RangeProviders(m, provs, i) ==
    IF i > Len(provs)
       THEN m
       ELSE RangeProviders(RangeSchemes(m, ProviderSchemes(provs[i]), i), provs, i + 1)

\* provider.go:83-91: NewProviders(providers...)
NewProviders(provs) == RangeProviders([s \in Schemes |-> 0], provs, 1)

\* The lists of at most n providers.
RECURSIVE ProviderLists(_)
ProviderLists(n) ==
    IF n = 0
       THEN {<<>>}
       ELSE LET shorter == ProviderLists(n - 1) IN
              shorter \cup {Append(l, k) : l \in {x \in shorter : Len(x) = n - 1},
                                            k \in RegistryKinds}

\* A caller builds a registry from the list provs.
BuildRegistry(provs) ==
    /\ providers' = provs
    /\ registry' = NewProviders(provs)
    /\ UNCHANGED <<hoScheme, ffVars, scVars, msVars, anVars>>
    /\ UNCHANGED <<fetchVars, gcVars, hoVars, appVars>>

\* An error sink that drops what it is given.
OptsErrorDropped(r) == hoErr' = [hoErr EXCEPT![r] = FALSE]

\* imgutil.go:55-58 and 107-111: OptsError(ctx, err) with an error that is
\* not nil hands it to the sink of the request.
OptsError(r) == hoErr' = [hoErr EXCEPT![r] = TRUE]

\* provider.go:105-113: Providers.Do(ctx, url, img) with url.Scheme = scheme.
ProvidersDo(r, scheme, img) ==
    /\ hoPc[r] = "idle"
    /\ hoScheme' = [hoScheme EXCEPT![r] = scheme]
    /\ IF registry[scheme] = 0
          THEN /\ OptsError(r)
               /\ hoPc' = [hoPc EXCEPT![r] = "done"]
               /\ hoProv' = [hoProv EXCEPT![r] = "none"]
               /\ hoImg' = [hoImg EXCEPT![r] = img]
               /\ hoAnim' = [hoAnim EXCEPT![r] = FALSE]
               /\ hoCtx' = [hoCtx EXCEPT![r] = FALSE]
               /\ hoSet' = [hoSet EXCEPT![r] = "none"]
          ELSE GoProvider(r, ProviderImpl(providers[registry[scheme]]), img)
    /\ UNCHANGED <<providers, registry, ffVars, scVars, msVars, anVars>>
    /\ UNCHANGED <<fetchVars, gcVars, appVars>>

\* ------------------------------------------------------ the FFmpeg provider

\* The requests whose goroutine holds a permit of ffmpegSema
\* (ffmpeg.go:112-115).
InFFmpeg == {r \in Requests : hoPc[r] = "tool"}

\* The goroutine of request r reports an error to its sink and ends
\* (ffmpeg.go:55-58 and 61-64).
FFmpegError(r) ==
    /\ OptsError(r)
    /\ hoPc' = [hoPc EXCEPT![r] = "done"]
    /\ hoPath' = [hoPath EXCEPT![r] = "none"]
    /\ UNCHANGED <<hoProv, hoImg, hoAnim, hoCtx, hoSet>>

\* ffmpeg.go:54 and 90-117: FFmpegThumbnail up to the call of the tool.
\* ffmpegOnce.Do looks the tool up on the first call of the process.  Without
\* the tool the function returns ("", nil); with the thumbnail in the cache
\* it returns its path; otherwise it takes a permit of ffmpegSema, blocking
\* while there is none and failing when its context is cancelled meanwhile.
FFmpegThumbnail(r) ==
    /\ hoPc[r] = "bg"
    /\ hoProv[r] = "ffmpeg"
    /\ LET has == IF ffmpegOnce THEN hasFFmpeg ELSE ffmpegInPath IN
         /\ hasFFmpeg' = has
         /\ ffmpegOnce' = TRUE
         /\ lookups' = IF ffmpegOnce THEN lookups ELSE Min(lookups + 1, 2)
         /\ IF ~has
               THEN /\ hoPath' = [hoPath EXCEPT![r] = "empty"]
                    /\ hoPc' = [hoPc EXCEPT![r] = "pixbuf"]
                    /\ UNCHANGED <<hoProv, hoImg, hoAnim, hoCtx, hoSet, hoErr>>
               ELSE IF thumb
                       THEN /\ hoPath' = [hoPath EXCEPT![r] = "thumbDst"]
                            /\ hoPc' = [hoPc EXCEPT![r] = "pixbuf"]
                            /\ UNCHANGED <<hoProv, hoImg, hoAnim, hoCtx, hoSet, hoErr>>
                       ELSE IF Cardinality(InFFmpeg) < FFmpegParallel
                               THEN /\ hoPc' = [hoPc EXCEPT![r] = "tool"]
                                    /\ UNCHANGED <<hoPath, hoProv, hoImg, hoAnim,
                                                   hoCtx, hoSet, hoErr>>
                               ELSE /\ hoCtx[r]
                                    /\ FFmpegError(r)
    /\ UNCHANGED <<ffmpegInPath, thumb, regVars, scVars, msVars, anVars>>
    /\ UNCHANGED <<fetchVars, gcVars, appVars>>

\* ffmpeg.go:117-122 and 127-149: the tool writes the thumbnail to the
\* temporary file, WithTmp renames it, the permit is released.
doFFmpeg(r) ==
    /\ hoPc[r] = "tool"
    /\ ~hoCtx[r]
    /\ thumb' = TRUE
    /\ hoPath' = [hoPath EXCEPT![r] = "thumbDst"]
    /\ hoPc' = [hoPc EXCEPT![r] = "pixbuf"]
    /\ UNCHANGED <<hoProv, hoImg, hoAnim, hoCtx, hoSet, hoErr>>
    /\ UNCHANGED <<ffmpegInPath, ffmpegOnce, hasFFmpeg, lookups, regVars, scVars, msVars, anVars>>
    /\ UNCHANGED <<fetchVars, gcVars, appVars>>

\* ffmpeg.go:136-146 and 54-58: the tool fails (it exits with an error, its
\* context is cancelled or times out); the permit is released.
doFFmpegError(r) ==
    /\ hoPc[r] = "tool"
    /\ FFmpegError(r)
    /\ UNCHANGED <<ffmpegInPath, ffmpegOnce, hasFFmpeg, lookups, thumb, regVars, scVars, msVars, anVars>>
    /\ UNCHANGED <<fetchVars, gcVars, appVars>>

\* ffmpeg.go:60-66: gdkpixbuf.NewPixbufFromFile(path).  The empty path is no
\* file, so the load fails and the error goes to the sink; the thumbnail is
\* loaded and its callback handed to the main loop.
NewPixbufFromFile(r) ==
    /\ hoPc[r] = "pixbuf"
    /\ IF hoPath[r] = "empty"
          THEN FFmpegError(r)
          ELSE /\ hoPc' = [hoPc EXCEPT![r] = "queued"]
               /\ hoPath' = [hoPath EXCEPT![r] = "none"]
               /\ UNCHANGED <<hoProv, hoImg, hoAnim, hoCtx, hoSet, hoErr>>
    /\ UNCHANGED <<ffmpegInPath, ffmpegOnce, hasFFmpeg, lookups, thumb, regVars, scVars, msVars, anVars>>
    /\ UNCHANGED <<fetchVars, gcVars, appVars>>

\* ffmpeg.go:60-64: the thumbnail file cannot be decoded.
NewPixbufFromFileError(r) ==
    /\ hoPc[r] = "pixbuf"
    /\ hoPath[r] = "thumbDst"
    /\ FFmpegError(r)
    /\ UNCHANGED <<ffmpegInPath, ffmpegOnce, hasFFmpeg, lookups, thumb, regVars, scVars, msVars, anVars>>
    /\ UNCHANGED <<fetchVars, gcVars, appVars>>

\* The ffmpeg tool leaves or enters the PATH of the process.
SetFFmpegInPath(b) ==
    /\ ffmpegInPath # b
    /\ ffmpegInPath' = b
    /\ UNCHANGED <<ffmpegOnce, hasFFmpeg, lookups, thumb, hoPath, regVars, scVars, msVars, anVars>>
    /\ UNCHANGED <<fetchVars, gcVars, hoVars, appVars>>

\* ------------------------------------------------------------- the scaler

\* A *gdkpixbuf.Pixbuf: the source it shows, its size, and which object it
\* is: 0 for the source pixbuf itself, the number of the allocation for a
\* pixbuf that ScaleSimple has made.
Pixbuf(src, w, h, inst) == [src |-> src, w |-> w, h |-> h, inst |-> inst]

\* The nil pixbuf.
NoPixbuf == Pixbuf(0, 0, 0, 0)

\* The pixbufs the providers deliver: a square one, a tall one, a wide one.
SourcePixbufs ==
    {Pixbuf(1, MaxSrc, MaxSrc, 0), Pixbuf(2, 2, MaxSrc, 0), Pixbuf(3, MaxSrc, 2, 0)}

\* The size requests of the widget; a side below 1 is no exact size.
SizeRequests == (0 .. MaxDst) \X (0 .. MaxDst)

\* The scale factors of the widget; 0 before its first allocation.
ScaleFactors == 0 .. maxScale + 1

\* pixbufScales{}, scaler.go:16
NoScales == [i \in 1 .. maxScale |-> NoPixbuf]

\* The number of a new allocation: one no pixbuf of the cache scl and not
\* the pixbuf of the parent has.
NewInst(scl) ==
    CHOOSE i \in 1 .. maxScale + 1 :
        /\ shown.inst # i
        /\ \A j \in 1 .. maxScale : scl[j].inst # i
        /\ \A k \in 1 .. i - 1 : shown.inst = k \/ \E j \in 1 .. maxScale : scl[j].inst = k

\* p.src.ScaleSimple(dstW, dstH, ...), scaler.go:130: a new pixbuf of
\* exactly the size asked for.
ScaleSimple(src, dstW, dstH, scl) == Pixbuf(src.src, dstW, dstH, NewInst(scl))

\* scaler.go:64-67
setParentPixbuf(pixbuf) ==
    /\ shown' = pixbuf
    /\ scSet' = TRUE

\* An invalidate that scales anew whenever it is called with a size.
storeNothing(scl, scale, pixbuf) == scl

\* scaler.go:133: p.scales[scale-1] = pixbuf
store(scl, scale, pixbuf) == [scl EXCEPT![scale] = pixbuf]

\* scaler.go:72-137: invalidate, with p.src = src and p.scales = scl as the
\* calling method has left them, the widget at scale factor scale with the
\* size request size.
invalidate(src, scl, scale, size) ==
    IF src = NoPixbuf
       THEN /\ setParentPixbuf(NoPixbuf)
            /\ scales' = scl
            /\ rescaled' = FALSE
            /\ UNCHANGED parentSz
    ELSE IF scale = 0
       THEN /\ scales' = scl
            /\ scSet' = FALSE
            /\ rescaled' = FALSE
            /\ UNCHANGED <<shown, parentSz>>
    ELSE IF size[1] < 1 \/ size[2] < 1
       THEN /\ setParentPixbuf(src)
            /\ scales' = scl
            /\ rescaled' = FALSE
            /\ UNCHANGED parentSz
    ELSE LET kept == IF parentSz # size THEN NoScales ELSE scl
             dstW == size[1] * scale
             dstH == size[2] * scale
         IN  /\ parentSz' = size
             /\ IF dstW >= src.w \/ dstH >= src.h
                   THEN /\ setParentPixbuf(src)
                        /\ scales' = kept
                        /\ rescaled' = FALSE
                ELSE IF scale > maxScale
                   THEN /\ setParentPixbuf(src)
                        /\ scales' = kept
                        /\ rescaled' = FALSE
                ELSE IF kept[scale] # NoPixbuf
                   THEN /\ setParentPixbuf(kept[scale])
                        /\ scales' = kept
                        /\ rescaled' = FALSE
                ELSE LET pixbuf == IF dstW = src.w /\ dstH = src.h
                                      THEN src
                                      ELSE ScaleSimple(src, dstW, dstH, kept)
                     IN  /\ setParentPixbuf(pixbuf)
                         /\ scales' = store(kept, scale, pixbuf)
                         /\ rescaled' = (pixbuf # src)

\* scaler.go:31-35: SetFromPixbuf(pixbuf)
SetFromPixbuf(pixbuf) ==
    /\ scSrc' = pixbuf
    /\ invalidate(pixbuf, NoScales, scScale, scSize)
    /\ scOp' = "SetFromPixbuf"
    /\ UNCHANGED <<scSize, scScale>>
    /\ UNCHANGED <<regVars, ffVars, msVars, anVars>>
    /\ UNCHANGED <<fetchVars, gcVars, hoVars, appVars>>

\* scaler.go:38-40 and 55-57: Invalidate(), also the handler of the map
\* signal of the widget.
Invalidate ==
    /\ invalidate(scSrc, scales, scScale, scSize)
    /\ scOp' = "Invalidate"
    /\ UNCHANGED <<scSrc, scSize, scScale>>
    /\ UNCHANGED <<regVars, ffVars, msVars, anVars>>
    /\ UNCHANGED <<fetchVars, gcVars, hoVars, appVars>>

\* onlineimage.go:41-45, 71-75 and 101-105: SetSizeRequest of the widgets
\* sets the size request and calls Invalidate.
SetSizeRequest(size) ==
    /\ scSize' = size
    /\ invalidate(scSrc, scales, scScale, size)
    /\ scOp' = "SetSizeRequest"
    /\ UNCHANGED <<scSrc, scScale>>
    /\ UNCHANGED <<regVars, ffVars, msVars, anVars>>
    /\ UNCHANGED <<fetchVars, gcVars, hoVars, appVars>>

\* scaler.go:58-61: the handler of notify::scale-factor.
NotifyScaleFactor(scale) ==
    /\ scScale # scale
    /\ scScale' = scale
    /\ invalidate(scSrc, scales, scale, scSize)
    /\ scOp' = "NotifyScaleFactor"
    /\ UNCHANGED <<scSrc, scSize>>
    /\ UNCHANGED <<regVars, ffVars, msVars, anVars>>
    /\ UNCHANGED <<fetchVars, gcVars, hoVars, appVars>>

\* ---------------------------------------------------------------- MaxSize

\* math.Round of the float64 that stands for num/den, both positive: the
\* nearest integer.  Where num/den lies halfway between two integers the
\* float64 product of imgutil.go:534-535 may lie on either side of it, so
\* both neighbours are results.
Round(num, den) ==
    LET q == num \div den
        r == num % den
    IN  IF 2 * r < den THEN {q}
        ELSE IF 2 * r > den THEN {q + 1}
        ELSE {q, q + 1}

\* A scale that is the larger of the two ratios.
WidthRatioIsMax(w, h, maxW, maxH) == maxW * h >= maxH * w

\* imgutil.go:529-532: math.Min picks maxW/w when it is not above maxH/h.
WidthRatioIsMin(w, h, maxW, maxH) == maxW * h <= maxH * w

\* imgutil.go:515-538: the sizes MaxSize(w, h, maxW, maxH) may return.
MaxSize(w, h, maxW, maxH) ==
    LET w1 == IF w = 0 THEN maxW ELSE w
        h1 == IF h = 0 THEN maxH ELSE h
    IN  IF w1 < maxW /\ h1 < maxH
           THEN {<<w1, h1>>}
           ELSE LET num == IF WidthRatioIsMin(w1, h1, maxW, maxH) THEN maxW ELSE maxH
                    den == IF WidthRatioIsMin(w1, h1, maxW, maxH) THEN w1 ELSE h1
                IN  Round(w1 * num, den) \X Round(h1 * num, den)

\* A caller asks for MaxSize(w, h, maxW, maxH).
CallMaxSize(w, h, maxW, maxH) ==
    /\ msIn' = <<w, h, maxW, maxH>>
    /\ msOut' \in MaxSize(w, h, maxW, maxH)
    /\ UNCHANGED <<regVars, ffVars, scVars, anVars>>
    /\ UNCHANGED <<fetchVars, gcVars, hoVars, appVars>>

\* -------------------------------------------------------------- the State

\* The keys that callers use; the file of the State holds StoredKeys, and
\* Set is called with the keys of SetKeys only, so that one key never exists.
StateKeys == {"a", "b", "c"}
StoredKeys == {"a"}
SetKeys == {"a", "b"}

\* The threads that call the State: the main loop and one other goroutine.
\* "loader" stands for the goroutines that GetAsync starts.
StateThreads == {"main", "bg"}

\* Goroutines of GetAsync that have not run yet, at most.
MaxLoaders == 2

\* state.go:209-229: s.load() reads the file once.
loadState == IF loaded THEN state ELSE StoredKeys

\* state.go:129-141: s.get(key, dst) on the keys st.
State_get(key, st) == key \in st

\* state.go:81-98: Get(key, dst) on thread t: lock, load, read, unlock.
Get(t, key) ==
    /\ stPc[t] = "idle"
    /\ mut = "none"
    /\ loaded' = TRUE
    /\ state' = loadState
    /\ UNCHANGED <<mut, stPc, stRest, stLoaders, stIdle, stCalls>>
    /\ UNCHANGED <<fetchVars, gcVars, hoVars, uiVars, snkVars, sndVars>>

\* state.go:181-202: Set(key, val) on thread t; a nil val deletes the key.
Set(t, key, nil) ==
    /\ stPc[t] = "idle"
    /\ mut = "none"
    /\ loaded' = TRUE
    /\ state' = IF nil THEN loadState \ {key} ELSE loadState \cup {key}
    /\ UNCHANGED <<mut, stPc, stRest, stLoaders, stIdle, stCalls>>
    /\ UNCHANGED <<fetchVars, gcVars, hoVars, uiVars, snkVars, sndVars>>

\* state.go:65-68: Each(f) on thread t locks the mutex, loads, and starts the
\* loop over the keys.
EachLock(t) ==
    /\ stPc[t] = "idle"
    /\ mut = "none"
    /\ mut' = t
    /\ loaded' = TRUE
    /\ state' = loadState
    /\ stPc' = [stPc EXCEPT ![t] = "each"]
    /\ stRest' = [stRest EXCEPT ![t] = loadState]
    /\ UNCHANGED <<stLoaders, stIdle, stCalls>>
    /\ UNCHANGED <<fetchVars, gcVars, hoVars, uiVars, snkVars, sndVars>>

\* state.go:69-77: one round of the loop of Each on key k; f returns done.
\* With done the function returns at once, at line 75.
EachKey(t, k, done) ==
    /\ stPc[t] = "each"
    /\ k \in stRest[t]
    /\ IF done
          THEN /\ stPc' = [stPc EXCEPT ![t] = "idle"]
               /\ stRest' = [stRest EXCEPT ![t] = {}]
          ELSE /\ stRest' = [stRest EXCEPT ![t] = @ \ {k}]
               /\ UNCHANGED stPc
    /\ UNCHANGED <<mut, loaded, state, stLoaders, stIdle, stCalls>>
    /\ UNCHANGED <<fetchVars, gcVars, hoVars, uiVars, snkVars, sndVars>>

\* state.go:78: the loop of Each is over, s.mut.Unlock().
EachUnlock(t) ==
    /\ stPc[t] = "each"
    /\ stRest[t] = {}
    /\ mut' = "none"
    /\ stPc' = [stPc EXCEPT ![t] = "idle"]
    /\ UNCHANGED <<loaded, state, stRest, stLoaders, stIdle, stCalls>>
    /\ UNCHANGED <<fetchVars, gcVars, hoVars, uiVars, snkVars, sndVars>>

\* The goroutines of GetAsync that have not run.
Loaders == stLoaders["a"] + stLoaders["b"] + stLoaders["c"]

\* state.go:104-127: GetAsync(key, dst, done) on thread t.  Not loaded: a
\* goroutine is started and the call returns.  Loaded: the key is looked up,
\* the mutex unlocked, and done is called where the call is.
GetAsync(t, key) ==
    /\ stPc[t] = "idle"
    /\ mut = "none"
    /\ IF ~loaded
          THEN /\ Loaders < MaxLoaders
               /\ stLoaders' = [stLoaders EXCEPT ![key] = @ + 1]
               /\ UNCHANGED stCalls
          ELSE /\ stCalls' = IF State_get(key, state) THEN stCalls \cup {<<key, t>>}
                                                      ELSE stCalls
               /\ UNCHANGED stLoaders
    /\ UNCHANGED <<mut, loaded, state, stPc, stRest, stIdle>>
    /\ UNCHANGED <<fetchVars, gcVars, hoVars, uiVars, snkVars, sndVars>>

\* state.go:109-117: a goroutine of GetAsync for key runs: lock, load, and
\* when the key is there, done goes to glib.IdleAdd; unlock.
GetAsyncLoad(key) ==
    /\ stLoaders[key] > 0
    /\ mut = "none"
    /\ stLoaders' = [stLoaders EXCEPT ![key] = @ - 1]
    /\ loaded' = TRUE
    /\ state' = loadState
    /\ stIdle' = IF State_get(key, loadState) THEN Append(stIdle, key) ELSE stIdle
    /\ UNCHANGED <<mut, stPc, stRest, stCalls>>
    /\ UNCHANGED <<fetchVars, gcVars, hoVars, uiVars, snkVars, sndVars>>

\* state.go:115: the main loop runs a done handed to glib.IdleAdd.
GetAsyncIdle ==
    /\ stIdle # <<>>
    /\ stIdle' = Tail(stIdle)
    /\ stCalls' = stCalls \cup {<<Head(stIdle), "main">>}
    /\ UNCHANGED <<mut, loaded, state, stPc, stRest, stLoaders>>
    /\ UNCHANGED <<fetchVars, gcVars, hoVars, uiVars, snkVars, sndVars>>

\* ------------------------------------------------------------- the sounds

\* sounds.go:34: soundDebounce, 200 ms in units of 100 ms.
soundDebounce == 2

\* The last instant of the clock of the sounds.
MaxSoundClock == 3

\* sounds.go:24-27: the sound IDs.
SoundIDs == {"bell", "message"}

\* The goroutines that Play starts.
Players == {"g1", "g2", "g3"}

\* No time is stored for the id.
NeverPlayed == -1

\* sounds.go:42-44: Play(app, id) starts the goroutine g of play.
Play(g, id) ==
    /\ sndPc[g] = "idle"
    /\ sndPc' = [sndPc EXCEPT ![g] = "now"]
    /\ sndId' = [sndId EXCEPT ![g] = id]
    /\ UNCHANGED <<sndClock, sndNow, soundsLastPlayed>>
    /\ UNCHANGED <<fetchVars, gcVars, hoVars, uiVars, snkVars, stVars>>

\* sounds.go:47: now := time.Now().
playNow(g) ==
    /\ sndPc[g] = "now"
    /\ sndNow' = [sndNow EXCEPT ![g] = sndClock]
    /\ sndPc' = [sndPc EXCEPT ![g] = "load"]
    /\ UNCHANGED <<sndClock, sndId, soundsLastPlayed>>
    /\ UNCHANGED <<fetchVars, gcVars, hoVars, uiVars, snkVars, stVars>>

\* sounds.go:49-54: the time t stored for the id makes play return at now.
Debounced(t, now) == t # NeverPlayed /\ now - t < soundDebounce

\* sounds.go:49-54: soundsLastPlayed.Load(id) and the test of the age.
playLoad(g) ==
    /\ sndPc[g] = "load"
    /\ sndPc' = [sndPc EXCEPT ![g] =
                    IF Debounced(soundsLastPlayed[sndId[g]], sndNow[g]) THEN "dropped"
                                                                        ELSE "store"]
    /\ UNCHANGED <<sndClock, sndId, sndNow, soundsLastPlayed>>
    /\ UNCHANGED <<fetchVars, gcVars, hoVars, uiVars, snkVars, stVars>>

\* sounds.go:56-99: soundsLastPlayed.Store(id, now), and the sound is played.
playStore(g) ==
    /\ sndPc[g] = "store"
    /\ soundsLastPlayed' = [soundsLastPlayed EXCEPT ![sndId[g]] = sndNow[g]]
    /\ sndPc' = [sndPc EXCEPT ![g] = "played"]
    /\ UNCHANGED <<sndClock, sndId, sndNow>>
    /\ UNCHANGED <<fetchVars, gcVars, hoVars, uiVars, snkVars, stVars>>

\* 100 ms pass.
SoundTick ==
    /\ sndClock < MaxSoundClock
    /\ sndClock' = sndClock + 1
    /\ UNCHANGED <<sndPc, sndId, sndNow, soundsLastPlayed>>
    /\ UNCHANGED <<fetchVars, gcVars, hoVars, uiVars, snkVars, stVars>>

\* ------------------------------------------------- the options of a request

\* The options that set Opts.done (imgutil.go:135, 178, 191), or none of them.
DoneOptions == {"none", "WithFallbackIcon", "WithErrorFn", "WithDoneFn"}

\* An Opts value without setters and without done (the zero value).
NoOpts == [setFn |-> {}, done |-> "none"]

\* imgutil.go:122-126: WithOpts(ctx, fn).  fn runs on the local variable
\* opts, and its done closure keeps the pointer to that variable; the context
\* gets a copy of the value.  The setFn of the variable is the one of the Opts
\* in the parent context, which nothing has set.
WithOpts(fn) ==
    /\ snkPc = "none"
    /\ snkPc' = "ctx"
    /\ snkOpts' = NoOpts.setFn
    /\ snkDone' = fn
    /\ UNCHANGED <<snkGet, snkAsync, snkThread, snkCtx, snkErr, snkIdle, snkCalls,
                   snkShown>>
    /\ UNCHANGED <<fetchVars, gcVars, hoVars, uiVars, sndVars, stVars>>

\* An onDone that calls done where it is, on the thread of the fetch.
onDoneDirect(o, e, idle) ==
    /\ snkErr' = e
    /\ snkGet' = [o EXCEPT !.done = "none"]
    /\ snkIdle' = idle
    /\ snkCalls' = IF o.done # "none" THEN snkCalls \cup {<<"done", snkThread'>>}
                                      ELSE snkCalls
    /\ UNCHANGED snkShown

\* imgutil.go:86-102: o.onDone(e) on the Opts o, with the callbacks idle
\* handed to the main loop so far: a done that is set is taken out of o and
\* handed to glib.IdleAdd with the error; without one the error is logged.
onDone(o, e, idle) ==
    /\ snkErr' = e
    /\ IF o.done # "none"
          THEN /\ snkGet' = [o EXCEPT !.done = "none"]
               /\ snkIdle' = Append(idle, [fn |-> o.done, err |-> e, anim |-> FALSE])
          ELSE /\ snkGet' = o
               /\ snkIdle' = idle
    /\ UNCHANGED <<snkCalls, snkShown>>

\* imgutil.go:273-296: get(ctx, url, img, async), called on the thread
\* caller: o is a copy of the Opts of the context and gets the setters; an
\* empty URL is done at once; fetch runs on a new goroutine when async, and
\* on the thread of the caller otherwise.
get(img, async, caller, empty) ==
    /\ snkPc = "ctx"
    /\ snkAsync' = async
    /\ snkThread' = IF async /\ ~empty THEN "bg" ELSE caller
    /\ IF empty
          THEN /\ snkPc' = "returned"
               /\ onDone([setFn |-> img, done |-> snkDone], "nil", snkIdle)
          ELSE /\ snkPc' = "fetch"
               /\ snkGet' = [setFn |-> img, done |-> snkDone]
               /\ UNCHANGED <<snkErr, snkIdle, snkCalls, snkShown>>
    /\ UNCHANGED <<snkOpts, snkDone, snkCtx>>
    /\ UNCHANGED <<fetchVars, gcVars, hoVars, uiVars, sndVars, stVars>>

\* imgutil.go:282-288 with 319 and 425: fetchImage returns.  When the image
\* was loaded the callback of the setters is with the main loop and the error
\* is that of the context; otherwise the error of the load goes to onDone.
fetchReturns(decoded, anim) ==
    /\ snkPc = "fetch"
    /\ snkPc' = "returned"
    /\ IF decoded
          THEN onDone(snkGet, IF snkCtx THEN "canceled" ELSE "nil",
                      Append(snkIdle, [fn |-> "setter", err |-> "nil", anim |-> anim]))
          ELSE onDone(snkGet, "failed", snkIdle)
    /\ UNCHANGED <<snkOpts, snkDone, snkAsync, snkThread, snkCtx>>
    /\ UNCHANGED <<fetchVars, gcVars, hoVars, uiVars, sndVars, stVars>>

\* The fallback closure of cb hands the icon over (imgutil.go:137-152): the
\* load has failed and the Opts it holds has SetFromPaintable.
SetsIcon(cb) == cb.fn = "WithFallbackIcon" /\ cb.err # "nil" /\ "paintable" \in snkOpts

\* The setter the callback cb of a loaded image calls (imgutil.go:319-351,
\* 425-470): none when the context is cancelled.
SetterOf(cb) == IF snkCtx THEN "none" ELSE PickSetter(snkGet.setFn, cb.anim)

\* What the main loop invokes when it runs the callback cb.
Invoked(cb) ==
    IF cb.fn = "setter"
       THEN IF SetterOf(cb) = "none" THEN {} ELSE {<<SetterOf(cb), "main">>}
       ELSE IF SetsIcon(cb) THEN {<<"done", "main">>, <<"paintable", "main">>}
                            ELSE {<<"done", "main">>}

\* What the widget shows after the main loop ran the callback cb.
ShownAfter(cb) ==
    IF cb.fn = "setter"
       THEN IF SetterOf(cb) = "none" THEN snkShown ELSE "image"
       ELSE IF SetsIcon(cb) THEN "icon" ELSE snkShown

\* The main loop runs the callback that was handed to glib.IdleAdd first.
IdleRun ==
    /\ snkIdle # <<>>
    /\ snkIdle' = Tail(snkIdle)
    /\ snkCalls' = snkCalls \cup Invoked(Head(snkIdle))
    /\ snkShown' = ShownAfter(Head(snkIdle))
    /\ UNCHANGED <<snkPc, snkOpts, snkDone, snkGet, snkAsync, snkThread, snkCtx,
                   snkErr>>
    /\ UNCHANGED <<fetchVars, gcVars, hoVars, uiVars, sndVars, stVars>>

\* The caller cancels the context of the request.
CancelCtx ==
    /\ snkPc \in {"fetch", "returned"}
    /\ ~snkCtx
    /\ snkCtx' = TRUE
    /\ UNCHANGED <<snkPc, snkOpts, snkDone, snkGet, snkAsync, snkThread, snkErr,
                   snkIdle, snkCalls, snkShown>>
    /\ UNCHANGED <<fetchVars, gcVars, hoVars, uiVars, sndVars, stVars>>

\* The request is over; the widget is blank for the next one.
NextRequest ==
    /\ snkPc = "returned"
    /\ snkIdle = <<>>
    /\ snkPc' = "none"
    /\ snkOpts' = {}
    /\ snkDone' = "none"
    /\ snkGet' = NoOpts
    /\ snkAsync' = FALSE
    /\ snkThread' = "main"
    /\ snkCtx' = FALSE
    /\ snkErr' = "nil"
    /\ snkCalls' = {}
    /\ snkShown' = "blank"
    /\ UNCHANGED snkIdle
    /\ UNCHANGED <<fetchVars, gcVars, hoVars, uiVars, sndVars, stVars>>

\* ---------------------------------------------------------- the animation

\* base.go:24
maxFPSDelay == 1000 \div MaxFPS

Frames == 1 .. MaxFrames
TimerIds == 1 .. MaxTimers

\* The delays a frame declares (PixbufAnimationIter.DelayTime): -1 for a
\* frame that stays, or milliseconds below and above maxFPSDelay.
FrameDelays == {-1, 10, 30}

\* No source with this id.
NoTimer == [delay |-> 0, frame |-> 0]

\* The timeout sources that are pending.
Pending == {t \in TimerIds : timers[t] # NoTimer}

\* The handle glib.TimeoutAddPriority returns: an id no pending source of tm
\* has.
NewTimer(tm) ==
    CHOOSE t \in TimerIds :
        /\ tm[t] = NoTimer
        /\ \A u \in 1 .. t - 1 : tm[u] # NoTimer

\* What the widget shows: nothing, a pixbuf its scaler has handed over, or a
\* frame that the animation has set.
Shows(by, img) == [by |-> by, img |-> img]

\* scaler.go:31-35 and 72-92, seen from the widget: scaler.SetFromPixbuf(src)
\* hands the pixbuf over, but returns early, with cur still on the widget,
\* while the widget has no scale factor.
ScalerShows(src, cur) ==
    IF src = "none" THEN Shows("none", "none")
    ELSE IF ~anScale THEN cur
    ELSE Shows("scaler", src)

\* A delay that is passed on as the frame declares it.
animDelayUnbounded(delayMs) == delayMs

\* base.go:260-271: animDelay, of the delay the frame of the iterator declares.
animDelay(delayMs) ==
    IF delayMs = -1 THEN -1
    ELSE IF delayMs < maxFPSDelay THEN maxFPSDelay
    ELSE delayMs

\* A stopAnimation that forgets the handle and leaves the source.
SourceRemoveNothing(tm, handle) == tm

\* base.go:243-246: glib.SourceRemove(b.animation.animating) when the handle
\* is not 0.
SourceRemove(tm, handle) ==
    IF handle # 0 THEN [tm EXCEPT![handle] = NoTimer] ELSE tm

\* base.go:251-258: finishStopAnimation, with cur on the widget: the first
\* frame of the animation goes to the scaler, or the scaler hands over again
\* what it holds.
finishStopAnimation(cur) ==
    IF anPixbuf
       THEN /\ anSrc' = "first"
            /\ anShown' = ScalerShows("first", cur)
       ELSE /\ anShown' = ScalerShows(anSrc, cur)
            /\ UNCHANGED anSrc

\* A stopAnimation that removes the source and keeps its handle.
stopAnimationKeepsHandle(tm, cur) ==
    /\ timers' = SourceRemove(tm, animating)
    /\ UNCHANGED animating
    /\ finishStopAnimation(cur)

\* base.go:238-249: stopAnimation, with the sources tm pending and cur on the
\* widget.
stopAnimation(tm, cur) ==
    /\ timers' = SourceRemove(tm, animating)
    /\ animating' = 0
    /\ finishStopAnimation(cur)

\* base.go:220-233: scheduleNext for the iterator at frame, with the sources
\* tm pending and cur on the widget.
scheduleNext(tm, frame, cur) ==
    LET delay == animDelay(anDelay[frame]) IN
      /\ anIter' = frame
      /\ IF delay # -1
            THEN /\ timers' = [tm EXCEPT![NewTimer(tm)] = [delay |-> delay, frame |-> frame]]
                 /\ animating' = NewTimer(tm)
                 /\ anShown' = cur
                 /\ UNCHANGED anSrc
            ELSE stopAnimation(tm, cur)

\* base.go:123-165: enableAnimation, called once for the widget.
enableAnimation ==
    /\ ~anEnabled
    /\ anEnabled' = TRUE
    /\ anPixbuf' = FALSE
    /\ anPaused' = FALSE
    /\ animating' = 0
    /\ anOp' = "enableAnimation"
    /\ anWasActive' = FALSE
    /\ UNCHANGED <<timers, anDelay, anScale, anSrc, anShown, anIter>>
    /\ UNCHANGED <<regVars, ffVars, scVars, msVars>>
    /\ UNCHANGED <<fetchVars, gcVars, hoVars, appVars>>

\* base.go:112-119: the setter SetFromAnimation of fetch: an animation with
\* the frame delays d has arrived; its static image goes to the scaler.  The
\* animations of this model arrive while no frame timer is pending.
SetFromAnimation(d) ==
    /\ Pending = {}
    /\ anDelay' = d
    /\ anSrc' = "static"
    /\ anShown' = ScalerShows("static", anShown)
    /\ anPixbuf' = anEnabled
    /\ anOp' = "SetFromAnimation"
    /\ anWasActive' = FALSE
    /\ UNCHANGED <<anEnabled, anPaused, animating, timers, anScale, anIter>>
    /\ UNCHANGED <<regVars, ffVars, scVars, msVars>>
    /\ UNCHANGED <<fetchVars, gcVars, hoVars, appVars>>

\* base.go:105-111: the setter SetFromPixbuf of fetch: a still image has
\* arrived and goes to the scaler; the widget has no animation any more.
FetchedPixbuf ==
    /\ anSrc' = "still"
    /\ anShown' = ScalerShows("still", anShown)
    /\ anPixbuf' = FALSE
    /\ anOp' = "FetchedPixbuf"
    /\ anWasActive' = FALSE
    /\ UNCHANGED <<anEnabled, anPaused, animating, timers, anDelay, anScale, anIter>>
    /\ UNCHANGED <<regVars, ffVars, scVars, msVars>>
    /\ UNCHANGED <<fetchVars, gcVars, hoVars, appVars>>

\* base.go:184-236: AnimationController.Start, that is startAnimation.
AnimationStart ==
    /\ IF ~anEnabled \/ ~anPixbuf \/ anPaused \/ ~anScale
          THEN /\ anOp' = "StartReturned"
               /\ UNCHANGED <<animating, timers, anSrc, anShown, anIter>>
          ELSE /\ Cardinality(Pending) < MaxTimers
               /\ anOp' = "Start"
               /\ scheduleNext(timers, 1, Shows("anim", 1))
    /\ anWasActive' = FALSE
    /\ UNCHANGED <<anEnabled, anPixbuf, anPaused, anDelay, anScale>>
    /\ UNCHANGED <<regVars, ffVars, scVars, msVars>>
    /\ UNCHANGED <<fetchVars, gcVars, hoVars, appVars>>

\* base.go:223-228: the callback of the timeout source t runs on the main
\* loop, and the source is gone: the iterator advances or stays (advance),
\* a new frame is set on the widget, and scheduleNext runs.
Timeout(t, advance) ==
    /\ timers[t] # NoTimer
    /\ LET frame == IF advance THEN (timers[t].frame % MaxFrames) + 1
                                ELSE timers[t].frame
           cur == IF advance THEN Shows("anim", frame) ELSE anShown
       IN  scheduleNext([timers EXCEPT![t] = NoTimer], frame, cur)
    /\ anOp' = "Timeout"
    /\ UNCHANGED <<anEnabled, anPixbuf, anPaused, anDelay, anScale, anWasActive>>
    /\ UNCHANGED <<regVars, ffVars, scVars, msVars>>
    /\ UNCHANGED <<fetchVars, gcVars, hoVars, appVars>>

\* base.go:238-249: AnimationController.Stop, that is stopAnimation.
AnimationStop ==
    /\ IF ~anEnabled
          THEN /\ anOp' = "StopReturned"
               /\ UNCHANGED <<animating, timers, anSrc, anShown>>
          ELSE /\ anOp' = IF animating # 0 THEN "Stop" ELSE "StopIdle"
               /\ stopAnimation(timers, anShown)
    /\ anWasActive' = FALSE
    /\ UNCHANGED <<anEnabled, anPixbuf, anPaused, anDelay, anScale, anIter>>
    /\ UNCHANGED <<regVars, ffVars, scVars, msVars>>
    /\ UNCHANGED <<fetchVars, gcVars, hoVars, appVars>>

\* base.go:130-140 and 153-156: setPause(pause), the handler of the map and
\* unmap signals and of the focus of the window.
setPause(pause) ==
    /\ anEnabled
    /\ IF pause
          THEN stopAnimation(timers, anShown)
          ELSE UNCHANGED <<animating, timers, anSrc, anShown>>
    /\ anPaused' = pause
    /\ anOp' = "setPause"
    /\ anWasActive' = IF pause THEN animating # 0 \/ (anPaused /\ anWasActive)
                                ELSE anWasActive
    /\ UNCHANGED <<anEnabled, anPixbuf, anDelay, anScale, anIter>>
    /\ UNCHANGED <<regVars, ffVars, scVars, msVars>>
    /\ UNCHANGED <<fetchVars, gcVars, hoVars, appVars>>

\* The widget is allocated: it has a scale factor from now on.
Allocate ==
    /\ ~anScale
    /\ anScale' = TRUE
    /\ anOp' = "Allocate"
    /\ UNCHANGED <<anEnabled, anPixbuf, anPaused, animating, timers, anDelay,
                   anSrc, anShown, anIter, anWasActive>>
    /\ UNCHANGED <<regVars, ffVars, scVars, msVars>>
    /\ UNCHANGED <<fetchVars, gcVars, hoVars, appVars>>

\* ------------------------------------------------------ the specifications

\* The package-level variables of http.go:35-43 after initialisation, and no
\* call running.
Init ==
    /\ clock = 0
    /\ invalidURLs = [k \in Keys |-> NoEntry]
    /\ fetchingURLs = [k \in Keys |-> 0]
    /\ locked = {}
    /\ cache = [k \in Keys |-> NoFile]
    /\ pc = [p \in Procs |-> "idle"]
    /\ url = [p \in Procs |-> "k1"]
    /\ urlMut = [p \in Procs |-> 0]
    /\ ctxDone = [p \in Procs |-> FALSE]
    /\ held = [p \in Procs |-> FALSE]
    /\ tmp = [p \in Procs |-> NoFile]
    /\ err = [p \in Procs |-> "none"]
    /\ ret = NoRet
    /\ startedFresh = [p \in Procs |-> FALSE]
    /\ startedCached = [p \in Procs |-> FALSE]
    /\ lastNotFound = [k \in Keys |-> NoEntry]
    /\ keyReturned = [k \in Keys |-> FALSE]
    /\ inWave = [p \in Procs |-> FALSE]
    /\ waveSent = [k \in Keys |-> 0]
    /\ waveFailed = [k \in Keys |-> FALSE]
    /\ waveFirst = [k \in Keys |-> NoResult]
    /\ gcPc = [g \in GcProcs |-> "idle"]
    /\ gcNow = [g \in GcProcs |-> 0]
    /\ gcAge = [g \in GcProcs |-> 0]
    /\ lastRun = ZeroTime
    /\ running = FALSE
    /\ pass = [i \in PassIds |-> NoPass]
    /\ dir = [f \in Files |-> NoEntry]
    /\ lastStart = NoEntry
    /\ hoPc = [r \in Requests |-> "idle"]
    /\ hoProv = [r \in Requests |-> "http"]
    /\ hoImg = [r \in Requests |-> {}]
    /\ hoAnim = [r \in Requests |-> FALSE]
    /\ hoCtx = [r \in Requests |-> FALSE]
    /\ hoSet = [r \in Requests |-> "none"]
    /\ hoErr = [r \in Requests |-> FALSE]
    /\ providers = <<>>
    /\ registry = [s \in Schemes |-> 0]
    /\ hoScheme = [r \in Requests |-> "http"]
    /\ ffmpegInPath = TRUE
    /\ ffmpegOnce = FALSE
    /\ hasFFmpeg = FALSE
    /\ lookups = 0
    /\ thumb = FALSE
    /\ hoPath = [r \in Requests |-> "none"]
    /\ anEnabled = FALSE
    /\ anPixbuf = FALSE
    /\ anPaused = FALSE
    /\ animating = 0
    /\ timers = [t \in TimerIds |-> NoTimer]
    /\ anDelay = [f \in Frames |-> -1]
    /\ anScale = FALSE
    /\ anSrc = "none"
    /\ anShown = Shows("none", "none")
    /\ anIter = 0
    /\ anWasActive = FALSE
    /\ anOp = "none"
    /\ mut = "none"
    /\ loaded = FALSE
    /\ state = {}
    /\ stPc = [t \in StateThreads |-> "idle"]
    /\ stRest = [t \in StateThreads |-> {}]
    /\ stLoaders = [k \in StateKeys |-> 0]
    /\ stIdle = <<>>
    /\ stCalls = {}
    /\ sndClock = 0
    /\ sndPc = [g \in Players |-> "idle"]
    /\ sndId = [g \in Players |-> "bell"]
    /\ sndNow = [g \in Players |-> 0]
    /\ soundsLastPlayed = [id \in SoundIDs |-> NeverPlayed]
    /\ snkPc = "none"
    /\ snkOpts = {}
    /\ snkDone = "none"
    /\ snkGet = NoOpts
    /\ snkAsync = FALSE
    /\ snkThread = "main"
    /\ snkCtx = FALSE
    /\ snkErr = "nil"
    /\ snkIdle = <<>>
    /\ snkCalls = {}
    /\ snkShown = "blank"
    /\ msIn = <<0, 0, 0, 0>>
    /\ msOut = <<0, 0>>
    /\ scSrc = NoPixbuf
    /\ scales = NoScales
    /\ parentSz = <<0, 0>>
    /\ scSize = <<0, 0>>
    /\ scScale = 0
    /\ shown = NoPixbuf
    /\ scOp = "none"
    /\ scSet = FALSE
    /\ rescaled = FALSE

\* One step of goroutine p in fetchImage and fetchURL, with a server that
\* answers and a cache directory that works.
Step(p) ==
    \/ fiLoad(p)
    \/ fuTable(p)
    \/ fuLock(p)
    \/ fu137(p)
    \/ fuAcq(p)
    \/ WithTmpFile(p)
    \/ downloadTo(p)
    \/ Rename(p)
    \/ fuDelete(p)
    \/ fiReload(p)

\* The failures of the network.
NetError(p) ==
    \/ \E e \in {"status5xx", "transport"} : getBodyError(p, e)
    \/ downloadToError(p)

\* The failures of the cache directory, and the fallback they lead to.
Fallback(p) ==
    \/ \E e \in {"cacheMkdir", "cacheMktemp"} : WithTmpFileError(p, e)
    \/ RenameError(p)
    \/ \E b \in Bodies : fallbackGetBody(p, b)
    \/ fallbackGetBody4xx(p)
    \/ \E e \in {"status5xx", "transport"} : fallbackGetBodyError(p, e)
    \/ fallbackLoad(p)
    \/ fallbackLoadError(p)

\* Cancellation by the caller.
Canceled(p) ==
    \/ Cancel(p)
    \/ getBodyCanceled(p)
    \/ fallbackGetBodyCanceled(p)

\* Two goroutines within one hour: the clock stands still.  The first fetches
\* either key, the second keeps to one, so that they meet on a key or fetch
\* two keys side by side.
Next ==
    \/ \E k \in Keys : Start("p1", k)
    \/ Start("p2", "k1")
    \/ \E p \in Pair : Step(p)
    \/ \E p \in Pair, b \in Bodies : getBody(p, b)
    \/ \E p \in Pair : getBody4xx(p)
    \/ \E p \in Pair : NetError(p)
    \/ \E p \in Pair : Fallback(p)
    \/ \E p \in Pair : Canceled(p)

Spec == Init /\ [][Next]_vars

\* Three goroutines fetching one key from a server that answers 2xx or 5xx,
\* with a cache directory in which mktemp may fail.
NextRace ==
    \/ \E p \in Procs : Start(p, "k1")
    \/ \E p \in Procs : Step(p)
    \/ \E p \in Procs : getBody(p, "b1")
    \/ \E p \in Procs : getBodyError(p, "status5xx")
    \/ \E p \in Procs : WithTmpFileError(p, "cacheMktemp")
    \/ \E p \in Procs : fallbackGetBody(p, "b1")
    \/ \E p \in Procs : fallbackLoad(p)

SpecRace == Init /\ [][NextRace]_vars

\* Two goroutines fetching one key over the hours.
NextTTL ==
    \/ \E p \in Pair : Start(p, "k1")
    \/ \E p \in Pair : Step(p)
    \/ \E p \in Pair : fi74del(p)
    \/ \E p \in Pair : fu137del(p)
    \/ \E p \in Pair : getBody(p, "b1")
    \/ \E p \in Pair : getBody4xx(p)
    \/ \E p \in Pair : getBodyError(p, "status5xx")
    \/ Tick

SpecTTL == Init /\ [][NextTTL]_vars

\* Three goroutines on two keys with two permits, a server that answers 2xx
\* or 4xx, and callers that cancel: every way out of fetchURL is taken.
NextLocks ==
    \/ \E p \in {"p1", "p3"} : Start(p, "k1")
    \/ Start("p2", "k2")
    \/ \E p \in Procs : Step(p)
    \/ \E p \in Procs : getBody(p, "b1")
    \/ \E p \in Procs : getBody4xx(p)
    \/ \E p \in Procs : downloadToError(p)
    \/ \E p \in Procs : Cancel(p)
    \/ \E p \in Procs : getBodyCanceled(p)

SpecLocks == Init /\ [][NextLocks]_vars

\* Two goroutines fetching one key into a cache directory that fails: mkdir,
\* mktemp and rename fail, and the disk fills up under the download.
NextDisk ==
    \/ \E p \in Pair : Start(p, "k1")
    \/ \E p \in Pair : Step(p)
    \/ \E p \in Pair : getBody(p, "b1")
    \/ \E p \in Pair : getBodyError(p, "status5xx")
    \/ \E p \in Pair : downloadToWriteError(p)
    \/ \E p \in Pair : Fallback(p)

SpecDisk == Init /\ [][NextDisk]_vars

\* Two callers of cachegc.Do on one directory, over the time.
NextGC ==
    \/ \E g \in GcProcs, age \in Ages : Do(g, age)
    \/ \E g \in GcProcs : do(g)
    \/ \E i \in PassIds : ReadDir(i)
    \/ \E i \in PassIds, f \in Files : Entry(i, f)
    \/ \E i \in PassIds : Finish(i)
    \/ \E f \in Files : CreateFile(f)
    \/ Tick

SpecGC == Init /\ [][NextGC]_vars

\* Requests to the three providers and their callbacks on the main loop.
NextHandoff ==
    \/ \E r \in Requests, prov \in ProviderKinds, img \in ImageSetters :
           ProviderDo(r, prov, img)
    \/ \E r \in Requests, anim \in BOOLEAN : Loaded(r, anim)
    \/ \E r \in Requests : LoadFailed(r)
    \/ \E r \in Requests : Callback(r)
    \/ \E r \in Requests : FFmpegCallback(r)
    \/ \E r \in Requests : CancelRequest(r)
    \/ \E r \in Requests : Forget(r)

SpecHandoff == Init /\ [][NextHandoff]_vars

\* One request dispatched through registries of at most MaxProviders
\* providers, and its callback on the main loop.
NextRegistry ==
    \/ \E provs \in ProviderLists(MaxProviders) : BuildRegistry(provs)
    \/ \E s \in Schemes, img \in ImageSetters : ProvidersDo("r1", s, img)
    \/ \E anim \in BOOLEAN : Loaded("r1", anim)
    \/ LoadFailed("r1")
    \/ Callback("r1")
    \/ FFmpegCallback("r1")
    \/ CancelRequest("r1")
    \/ Forget("r1")

SpecRegistry == Init /\ [][NextRegistry]_vars

\* Requests to the FFmpeg provider in a process that may lack the tool.
NextFFmpeg ==
    \/ \E r \in Requests, img \in ImageSetters : ProviderDo(r, "ffmpeg", img)
    \/ \E r \in Requests : FFmpegThumbnail(r)
    \/ \E r \in Requests : doFFmpeg(r)
    \/ \E r \in Requests : doFFmpegError(r)
    \/ \E r \in Requests : NewPixbufFromFile(r)
    \/ \E r \in Requests : NewPixbufFromFileError(r)
    \/ \E r \in Requests : FFmpegCallback(r)
    \/ \E r \in Requests : CancelRequest(r)
    \/ \E r \in Requests : Forget(r)
    \/ \E b \in BOOLEAN : SetFFmpegInPath(b)

SpecFFmpeg == Init /\ [][NextFFmpeg]_vars

\* One widget with its scaler: pixbufs arrive, the size request and the
\* scale factor change, the widget is mapped.
NextScaler ==
    \/ \E pixbuf \in SourcePixbufs \cup {NoPixbuf} : SetFromPixbuf(pixbuf)
    \/ Invalidate
    \/ \E size \in SizeRequests : SetSizeRequest(size)
    \/ \E scale \in ScaleFactors : NotifyScaleFactor(scale)

SpecScaler == Init /\ [][NextScaler]_vars

\* MaxSize called with positive sizes and maxima.
NextMaxSize ==
    \E w, h, maxW, maxH \in 1 .. MaxDim : CallMaxSize(w, h, maxW, maxH)

SpecMaxSize == Init /\ [][NextMaxSize]_vars

\* One widget with an animation controller: animations arrive, the user
\* starts and stops the playback, the main loop runs the frame timers.
NextAnimation ==
    \/ enableAnimation
    \/ \E d \in [Frames -> FrameDelays] : SetFromAnimation(d)
    \/ FetchedPixbuf
    \/ AnimationStart
    \/ \E t \in TimerIds, advance \in BOOLEAN : Timeout(t, advance)
    \/ AnimationStop
    \/ \E pause \in BOOLEAN : setPause(pause)
    \/ Allocate

SpecAnimation == Init /\ [][NextAnimation]_vars

\* The calls of two threads on one State, the goroutines of GetAsync and the
\* main loop.
NextState ==
    \/ \E t \in StateThreads, k \in StateKeys : Get(t, k)
    \/ \E t \in StateThreads, k \in SetKeys, nil \in BOOLEAN : Set(t, k, nil)
    \/ \E t \in StateThreads : EachLock(t)
    \/ \E t \in StateThreads, k \in StateKeys, done \in BOOLEAN : EachKey(t, k, done)
    \/ \E t \in StateThreads : EachUnlock(t)
    \/ \E t \in StateThreads, k \in StateKeys : GetAsync(t, k)
    \/ \E k \in StateKeys : GetAsyncLoad(k)
    \/ GetAsyncIdle

SpecState == Init /\ [][NextState]_vars

\* Calls of Play, each with its goroutine, while the time passes.
NextSounds ==
    \/ \E g \in Players, id \in SoundIDs : Play(g, id)
    \/ \E g \in Players : playNow(g)
    \/ \E g \in Players : playLoad(g)
    \/ \E g \in Players : playStore(g)
    \/ SoundTick

SpecSounds == Init /\ [][NextSounds]_vars

\* One request with its options: WithOpts, then GET or AsyncGET from the main
\* loop or from another thread, and the main loop running the callbacks.
NextOptions ==
    \/ \E fn \in DoneOptions : WithOpts(fn)
    \/ \E img \in ImageSetters, async \in BOOLEAN, caller \in {"main", "caller"},
          empty \in BOOLEAN : get(img, async, caller, empty)
    \/ \E decoded \in BOOLEAN, anim \in BOOLEAN : fetchReturns(decoded, anim)
    \/ IdleRun
    \/ CancelCtx
    \/ NextRequest

SpecOptions == Init /\ [][NextOptions]_vars

\* ------------------------------------------------ properties of the fetcher

\* http.go:150-157: the goroutines whose fetchURL is between client.Do and
\* the end of io.Copy for key k.
Transferring(k) == {p \in Procs : url[p] = k /\ pc[p] \in {"fuResp", "fuCopy"}}

\* http.go:97-103 and 150-157: the goroutines with an HTTP transfer in
\* progress, in fetchURL or in the fallback of fetchImage.
InTransfer == {p \in Procs : pc[p] \in {"fuResp", "fuCopy", "fbResp", "fbRead"}}

\* http.go:133: the goroutines blocked in urlMut.Lock() on the mutex p holds.
Waiters(p) == {q \in Procs \ {p} : pc[q] = "fuLock" /\ urlMut[q] = urlMut[p]}

\* The call of p has sent an HTTP request.
HasSent(p) == pc[p] \in {"fuResp", "fuCopy", "fuRename", "fbResp", "fbRead"}

\* C1: for every key, whatever the interleaving of the fetchURL calls, at
\* most one call is performing the HTTP transfer for the key at any time.
C1_OneTransferPerKey == \A k \in Keys : Cardinality(Transferring(k)) <= 1

C3_NotFoundWithinTheHour ==
    /\ \A p \in Procs : startedFresh[p] => ~HasSent(p)
    /\ ret.fresh => ret.out = ErrNotFound

\* C4: a call that starts when the file of its key is cached and the lock
\* table has no entry for the key sends no HTTP request and returns the
\* bytes of the file.
C4_CachedBytesLoaded ==
    /\ \A p \in Procs : startedCached[p] => ~HasSent(p)
    /\ ret.cached => ret.out = Ok(cache[ret.key])

\* C5: the file at the final path of a key changes only by the rename of a
\* completely copied temporary file of a call for that key, which returns
\* nil from fetchURL; so a file at the final path is always a complete body,
\* and a download that fails or is cancelled leaves the final path as it was.
C5_AtomicCacheFile ==
    [][\A k \in Keys :
          cache'[k] # cache[k] =>
              \E p \in Procs :
                  /\ url[p] = k /\ pc[p] = "fuRename"
                  /\ tmp[p][1] \in Bodies /\ tmp[p][2] = BodyLen
                  /\ cache'[k] = tmp[p]
                  /\ err'[p] = "none"]_vars

\* A complete file is at the final path and another call for the key, whose
\* download failed, has left fetchURL with nothing stored.
C5_Witness ==
    \E p \in Procs :
        /\ cache[url[p]] # NoFile
        /\ cache[url[p]][2] = BodyLen
        /\ pc[p] = "fuDelete" /\ err[p] = "download"

\* C6: the HTTP transfers in progress, those of the fallback included, are
\* at most as many as the semaphore has permits, and a permit is held only
\* inside WithTmpFile.
C6_TransfersWithinPermits ==
    /\ Cardinality(InTransfer) <= MaxParallel
    /\ \A p \in Procs : held[p] => pc[p] \in {"fuTmp", "fuResp", "fuCopy", "fuRename"}

FsFailures == CacheErrors \cup {"write"}

\* C14: a call whose fetchURL has failed with a failure of the cache
\* directory has a cache error in hand and goes on to the fallback, which
\* sends its own request; after any other failure the call returns that
\* error without a fallback.
C14_CacheFailuresFallBack ==
    [][\A p \in Procs :
          (pc[p] = "fuDelete" /\ pc'[p] # "fuDelete" /\ err[p] # "none")
          => IF err[p] \in FsFailures
                THEN IsCacheError(err[p]) /\ pc'[p] = "fbResp"
                ELSE pc'[p] = "idle" /\ ret'.out = Failed(err[p])]_vars

\* ---------------------------------------- properties of the garbage collector

\* C9: a deletion pass starts only when no pass is running and at least
\* gcPeriod after the start of the last pass.
C9_OnePassPerPeriod ==
    [][(\E i \in PassIds : pass[i].state = "idle" /\ pass'[i].state = "readdir")
       => /\ Running = {}
          /\ lastStart = NoEntry \/ lastStart + GcPeriod <= clock]_vars

C7_CancelSuppressesSetter ==
    \A r \in Requests : (hoPc[r] = "done" /\ hoCtx[r]) => hoSet[r] = "none"

\* ------------------------------------------------ properties of the registry

\* The indices of the providers of the list that declare scheme s.
Declaring(s) ==
    {i \in 1 .. Len(providers) :
        \E j \in 1 .. Len(ProviderSchemes(providers[i])) :
            ProviderSchemes(providers[i])[j] = s}

\* C11: the registry maps every scheme that some provider of the list
\* declares to the provider with the largest index declaring it, and maps no
\* other scheme.
C11_LastProviderWins ==
    \A s \in Schemes :
        IF Declaring(s) = {}
           THEN registry[s] = 0
           ELSE /\ registry[s] \in Declaring(s)
                /\ \A i \in Declaring(s) : i <= registry[s]

\* A registry in which a later provider has taken a scheme from an earlier
\* one of another kind, which keeps another scheme, and a scheme is unmapped.
C11_Witness ==
    \E s, t, u \in Schemes :
        /\ Cardinality(Declaring(s)) >= 2
        /\ registry[s] # 0 /\ registry[t] # 0
        /\ registry[t] < registry[s]
        /\ providers[registry[t]] # providers[registry[s]]
        /\ registry[u] = 0

\* C12: a Providers.Do call whose scheme is not in the registry reports an
\* error to the sink of the request and is over with it: no provider is
\* started and no setter invoked.
C12_UnknownSchemeToSink ==
    [][\A r \in Requests :
          (hoPc[r] = "idle" /\ hoPc'[r] # "idle" /\ registry[hoScheme'[r]] = 0)
          => /\ hoErr'[r]
             /\ hoPc'[r] = "done"
             /\ hoProv'[r] = "none"
             /\ hoSet'[r] = "none"]_vars

\* A request with a scheme no provider of a registry with providers declares
\* has ended in the sink.
C12_Witness ==
    /\ providers # <<>>
    /\ hoPc["r1"] = "done" /\ hoProv["r1"] = "none" /\ hoErr["r1"]
    /\ registry[hoScheme["r1"]] = 0

\* ---------------------------------------- properties of the FFmpeg provider

\* C13: the tool is looked up once for the process, and once it was found
\* absent a call of the FFmpeg provider does nothing: it does not invoke the
\* tool, reports no error to the sink and invokes no setter.
C13_AbsentToolDoesNothing ==
    /\ lookups <= 1
    /\ (ffmpegOnce /\ ~hasFFmpeg) =>
           \A r \in Requests :
               (hoProv[r] = "ffmpeg" /\ hoPc[r] # "idle")
               => /\ hoPc[r] # "tool"
                  /\ ~hoErr[r]
                  /\ hoSet[r] = "none"

\* ------------------------------------------------- properties of the scaler

\* The pixbuf was scaled from the source that is current after the step, for
\* the size sz at scale factor i.
ScaledFor(pixbuf, sz, i) ==
    /\ pixbuf.inst # 0
    /\ pixbuf.src = scSrc'.src
    /\ pixbuf.w = sz[1] * i
    /\ pixbuf.h = sz[2] * i

\* Two Invalidate calls in a row, with the same source, size and scale
\* factor, hand the parent the same object, and the second scales nothing.
SameInstanceAgain ==
    (scOp = "Invalidate" /\ scOp' = "Invalidate") =>
        (shown' = shown /\ ~rescaled')

\* C15, as the specification states it: after every method of the scaler
\* each cached variant was computed from the current source for the current
\* size of the widget at its scale, so that a change of the size has cleared
\* the variants of the size before; and Invalidate called again with
\* nothing changed hands over the cached object without scaling.
C15_VariantsOfCurrentSize ==
    [][/\ \A i \in 1 .. maxScale :
             scales'[i] # NoPixbuf => ScaledFor(scales'[i], scSize', i)
       /\ SameInstanceAgain]_vars

\* C15, amended: each cached variant was computed from the current source
\* for the size recorded in parentSz at its scale; the variants are cleared
\* by the invalidate that records another size; a variant handed to the
\* parent is one for the current size and scale factor of the widget; and
\* Invalidate called again with nothing changed hands over the cached object
\* without scaling.
C15_VariantsOfRecordedSize ==
    [][/\ \A i \in 1 .. maxScale :
             scales'[i] # NoPixbuf => ScaledFor(scales'[i], parentSz', i)
       /\ parentSz' # parentSz =>
             \A i \in 1 .. maxScale :
                 scales'[i] # NoPixbuf => (rescaled' /\ i = scScale' /\ scales[i] # scales'[i])
       /\ (scSet' /\ shown'.inst # 0) =>
             /\ ScaledFor(shown', scSize', scScale')
             /\ shown' = scales'[scScale']
       /\ SameInstanceAgain]_vars

\* The cache holds the variants of two scale factors for a size that the
\* widget no longer has: its size request was taken back.
C15_Witness ==
    /\ scOp = "SetSizeRequest"
    /\ scSize = <<0, 0>> /\ parentSz # <<0, 0>>
    /\ Cardinality({i \in 1 .. maxScale : scales[i] # NoPixbuf}) >= 2

\* Some scale factor s has round(srcW * s) = w and round(srcH * s) = h: the
\* size (w, h) has the aspect ratio of (srcW, srcH) within rounding.
SameAspect(w, h, srcW, srcH) ==
    /\ (2 * w - 1) * srcH < (2 * h + 1) * srcW
    /\ (2 * h - 1) * srcW < (2 * w + 1) * srcH

\* C16: the pixbuf a method of the scaler has handed to a widget with an
\* exact size fits within that size times the scale factor and has the
\* aspect ratio of the source.
C16_FitsKeepingAspect ==
    (scSet /\ shown # NoPixbuf /\ scSize[1] >= 1 /\ scSize[2] >= 1 /\ scScale >= 1)
    => /\ shown.w <= scSize[1] * scScale
       /\ shown.h <= scSize[2] * scScale
       /\ SameAspect(shown.w, shown.h, scSrc.w, scSrc.h)

\* ------------------------------------------------- properties of MaxSize

\* Some scale factor s has |srcW * s - w| <= 1/2 and |srcH * s - h| <= 1/2:
\* (w, h) is (srcW, srcH) scaled, each side rounded to a nearest integer.
WithinRounding(w, h, srcW, srcH) ==
    /\ (2 * w - 1) * srcH <= (2 * h + 1) * srcW
    /\ (2 * h - 1) * srcW <= (2 * w + 1) * srcH

\* C17: what MaxSize returns for positive arguments is within the maximum
\* and within the source size, and has the aspect ratio of the source within
\* rounding to the nearest integer.
C17_MaxSizeFits ==
    msIn # <<0, 0, 0, 0>> =>
        /\ msOut[1] <= msIn[3] /\ msOut[2] <= msIn[4]
        /\ msOut[1] <= msIn[1] /\ msOut[2] <= msIn[2]
        /\ WithinRounding(msOut[1], msOut[2], msIn[1], msIn[2])

\* A call that has scaled both sides down, to a size whose ratio is that of
\* the source only within rounding.
C17_Witness ==
    /\ msIn # <<0, 0, 0, 0>>
    /\ msOut[1] < msIn[1] /\ msOut[2] < msIn[2]
    /\ msOut[1] >= 1 /\ msOut[2] >= 1
    /\ msOut[1] * msIn[2] # msOut[2] * msIn[1]

\* C18: after any sequence of Start and Stop calls at most one frame timer is
\* pending for the widget (a Start while one is pending does nothing), and
\* after a Stop none is pending.
C18_OneFrameTimer ==
    /\ Cardinality(Pending) <= 1
    /\ anOp \in {"Stop", "StopIdle"} => Pending = {}

\* The larger of two numbers.
Max(a, b) == IF a >= b THEN a ELSE b

\* C19: every delay with which the animation driver schedules the next frame
\* is max(declared frame delay, 1000/MaxFPS) milliseconds, never below 20 ms
\* with MaxFPS = 50; when the frame declares -1, the driver schedules nothing
\* and ends the playback: the handle of the frame timer is cleared.
C19_DelayIsDeclaredOrFloor ==
    [][/\ \A t \in TimerIds :
            timers'[t] # NoTimer =>
              /\ anDelay'[timers'[t].frame] # -1
              /\ timers'[t].delay = Max(anDelay'[timers'[t].frame], 1000 \div MaxFPS)
              /\ timers'[t].delay >= 20
       /\ anOp' \in {"Start", "Timeout"} =>
            IF anDelay[anIter'] = -1
               THEN /\ {t \in TimerIds : timers'[t] # NoTimer} \subseteq Pending
                    /\ animating' = 0
               ELSE /\ animating' # 0
                    /\ timers'[animating'].frame = anIter'
                    /\ timers'[animating'].delay = Max(anDelay[anIter'], 1000 \div MaxFPS)
      ]_vars

\* A frame that declares 10 ms has its next frame scheduled in 20 ms.
C19_Witness ==
    /\ anOp = "Timeout"
    /\ anIter = 2
    /\ anDelay[anIter] = 10
    /\ animating # 0
    /\ timers[animating] = [delay |-> 20, frame |-> 2]

\* The frame of the animation that is on the widget: its number, 1 for the
\* static image and the first frame, 0 for no frame of the animation.
FrameOf(widget) ==
    IF widget.by = "anim" THEN widget.img
    ELSE IF widget.img \in {"static", "first"} THEN 1
    ELSE 0

\* C20 as stated: AnimationController.Stop during playback removes the
\* pending frame timer and leaves the frame that was rendered last on the
\* widget.
C20_StopKeepsLastFrame ==
    [][anOp' = "Stop" =>
         /\ timers'[animating] = NoTimer
         /\ FrameOf(anShown') = FrameOf(anShown)
      ]_vars

\* C20: AnimationController.Stop during playback removes the frame timer of
\* the handle it holds, clears the handle, and has the scaler show the first
\* frame of the animation, or the still image that has replaced the animation.
C20_StopShowsFirstFrame ==
    [][anOp' = "Stop" =>
         /\ timers'[animating] = NoTimer
         /\ animating' = 0
         /\ anShown' = IF anPixbuf THEN Shows("scaler", "first")
                                   ELSE Shows("scaler", "still")
      ]_vars

\* Stop has run while the second frame was on the widget, and the first frame
\* is on it now.
C20_Witness ==
    /\ anOp = "Stop"
    /\ anIter = 2
    /\ anPixbuf
    /\ animating = 0
    /\ anShown = Shows("scaler", "first")

\* C21 as stated: while an animation is playing, unmapping the widget or the
\* window losing focus (setPause(true)) stops the frame timer; when the
\* widget is mapped again or the window has the focus again
\* (setPause(false)), a playback that was active before the pause has a frame
\* timer again without a new Start call.
C21_PauseStopsAndMapResumes ==
    [][anOp' = "setPause" =>
         /\ (anPaused' /\ animating # 0) => timers'[animating] = NoTimer
         /\ (anPaused /\ ~anPaused' /\ anWasActive) => animating' # 0
      ]_vars

\* C21: setPause(true) removes the frame timer of the handle the controller
\* holds, clears the handle and marks the playback paused; setPause(false)
\* only takes the mark away: it schedules no frame timer and leaves the
\* handle as it is, so the playback is not resumed until Start is called.
C21_PauseStopsAndMapOnlyUnpauses ==
    [][anOp' = "setPause" =>
         IF anPaused'
            THEN /\ animating # 0 => timers'[animating] = NoTimer
                 /\ animating' = 0
            ELSE /\ timers' = timers
                 /\ animating' = animating
      ]_vars

\* The widget is mapped again after a pause that has stopped a playback, and
\* no frame timer is pending.
C21_Witness ==
    /\ anOp = "setPause"
    /\ ~anPaused
    /\ anWasActive
    /\ anPixbuf
    /\ animating = 0
    /\ Pending = {}

\* C29: after a still image has replaced the animation that was playing, no
\* frame timer of the old animation sets a frame of it on the widget.
C29_NoFrameOfReplacedAnimation ==
    [][(anOp' = "Timeout" /\ ~anPixbuf) => anShown'.by # "anim"]_vars

\* The errors of getBody for a request that got no 2xx answer.
StatusErrors == {"status4xx", "status5xx", "transport"}

\* The goroutines whose request is answered in this step with the error e:
\* in fetchURL the error is on its way out, in the fallback the call returns
\* it.
Answered(e) ==
    {p \in Procs :
        \/ pc[p] = "fuResp" /\ pc'[p] = "fuDelete" /\ err'[p] = e
        \/ pc[p] = "fbResp" /\ pc'[p] = "idle" /\ ret'.out = Failed(e)}

\* C26: a response status outside [200,299] makes the fetch fail with an
\* error; the negative cache gets an entry for the key exactly when the
\* status is in [400,499]; a 5xx response or a transport failure leaves the
\* negative cache as it is, so that the next request for the key is not
\* answered from it.
C26_OnlyA4xxMarksTheKey ==
    [][/\ \A p \in Answered("status4xx") :
            invalidURLs' = [invalidURLs EXCEPT![url[p]] = clock]
       /\ \A p \in Answered("status5xx") \cup Answered("transport") :
            invalidURLs' = invalidURLs
       /\ \A k \in Keys :
            (invalidURLs'[k] # invalidURLs[k] /\ invalidURLs'[k] # NoEntry) =>
               \E p \in Answered("status4xx") : url[p] = k
       /\ \A p \in Procs :
            (pc[p] = "fuDelete" /\ err[p] \in StatusErrors) =>
               (pc'[p] = "idle" => ret'.out = Failed(err[p]))
       /\ ret'.out = ErrNotFound => invalidURLs[ret'.key] # NoEntry
      ]_vars

\* A fetch has failed with a 5xx answer, and the negative cache has no entry
\* for its key.
C26_Witness ==
    /\ ret.out = Failed("status5xx")
    /\ invalidURLs[ret.key] = NoEntry

\* C27: a negative-cache entry stored at time t stays in place until
\* t + 1 hour: no step of urlIsInvalid and markURLInvalid calls on the key
\* takes away an entry that is younger than one hour.
C27_FreshEntryStays ==
    [][\A k \in Keys :
          (invalidURLs[k] # NoEntry /\ EntryFresh(invalidURLs[k])) =>
             invalidURLs'[k] # NoEntry
      ]_vars

\* The lines of fetchURL at which a call holds the mutex of its key, and
\* those at which it holds a permit of `parallel`.
HoldsMutex == {"fu137", "fu137del", "fuAcq", "fuTmp", "fuResp", "fuCopy", "fuRename"}
HoldsPermit == {"fuTmp", "fuResp", "fuCopy", "fuRename"}

\* The lines inside fetchURL, from the lookup of the table to the deferred
\* delete.
InFetchURL == HoldsMutex \cup {"fuLock", "fuDelete"}

\* C28: every fetchURL call ends its lock protocol on every path: the mutexes
\* that are locked are those of the calls between Lock and their return, a
\* permit is held only between Acquire and the return, and fetchingURLs has
\* no entry for a key that no fetchURL call is running or waiting for; so
\* with no call running nothing is locked and no permit is taken, and no
\* later fetch finds a lock that nobody will release.
C28_LockProtocolEnds ==
    /\ locked = {urlMut[p] : p \in {q \in Procs : pc[q] \in HoldsMutex}}
    /\ \A p, q \in Procs :
          (p # q /\ pc[p] \in HoldsMutex /\ pc[q] \in HoldsMutex) => urlMut[p] # urlMut[q]
    /\ \A p \in Procs : held[p] <=> pc[p] \in HoldsPermit
    /\ \A k \in Keys :
          (\A p \in Procs : ~(pc[p] \in InFetchURL /\ url[p] = k)) => fetchingURLs[k] = 0
    /\ \A p \in Procs :
          pc[p] = "fuLock" =>
             \/ urlMut[p] \notin locked
             \/ \E q \in Procs \ {p} : pc[q] \in HoldsMutex /\ urlMut[q] = urlMut[p]

\* A call has left fetchURL because its Acquire was cancelled, and nothing is
\* locked or held for it.
C28_Witness ==
    \E p \in Procs :
        /\ pc[p] = "fuDelete"
        /\ err[p] = "acquire"
        /\ ~held[p]
        /\ urlMut[p] \notin locked
        /\ fetchingURLs[url[p]] # 0

\* C22: when a request was made with WithFallbackIcon and an ImageSetter that
\* has SetFromPaintable, and its load has failed, then once the main loop has
\* run its callbacks the placeholder icon was handed to SetFromPaintable on
\* the main loop and the widget shows it.
C22_FailedLoadShowsIcon ==
    (/\ snkPc = "returned"
     /\ snkIdle = <<>>
     /\ snkDone = "WithFallbackIcon"
     /\ "paintable" \in snkGet.setFn
     /\ snkErr = "failed")
    => (<<"paintable", "main">> \in snkCalls /\ snkShown = "icon")

C24_OnePlayPerDebounce ==
    \A g, h \in Players :
        (/\ g # h
         /\ sndPc[g] = "played"
         /\ sndPc[h] = "played"
         /\ sndId[g] = sndId[h])
        => (sndNow[g] - sndNow[h] >= soundDebounce \/ sndNow[h] - sndNow[g] >= soundDebounce)

\* C25: every callback of GetAsync is called on the main thread, whichever
\* thread called GetAsync and whether the State was loaded or not, and none
\* is called for the key that does not exist.
C25_CallbackOnMainThread ==
    \A c \in stCalls : c[2] = "main" /\ c[1] \in SetKeys \cup StoredKeys

\* C30: a thread that is not inside Each does not hold the mutex of the
\* State: Each has unlocked it on every path on which it returned, also when
\* the callback returned done, so a later operation can lock it.
C30_EachReturnsUnlocked ==
    \A t \in StateThreads : stPc[t] = "idle" => mut # t

====
